---- MODULE Spec2Model ----
(***************************************************************************)
(* A model of the LemanFlow Move packages:                                 *)
(*   - sui_hackathon::{event, mission, passport}  (src/move/sources)       *)
(*   - sui_hackathon::grant_pool                  (src/move/sources)       *)
(*   - leman_flow::{event, passport, grant_pool, leman_flow}               *)
(* Every public function is an operator that maps the objects it is given *)
(* to its outcome: the abort code (Ok when it commits) and the objects as  *)
(* it leaves them.  A transaction is one atomic action that applies the    *)
(* function and commits its result only when it did not abort.             *)
(***************************************************************************)
EXTENDS Integers, Sequences, FiniteSets, TLC

VARIABLES
    events,      \* sui_hackathon::event::Event objects, indexed by object id
    caps,        \* sui_hackathon::event::EventAdminCap objects, indexed by id
    passports,   \* sui_hackathon::passport::Passport objects, indexed by id
    clock,       \* sui::clock::Clock timestamp_ms
    paid,        \* history: reward transfers, per <<passport, event, mission>>
    attested,    \* history: attestation writes, per <<passport, event, mission>>
    received,    \* history: reward coins transferred to each address
    eventFunded, \* history, per Event: the sum of the fund_event payments
    pools,       \* sui_hackathon::grant_pool::GrantPool objects, indexed by id
    poolCaps,    \* sui_hackathon::grant_pool::GrantPoolAdminCap objects
    poolLedger,  \* history, per pool: coins put in and coins taken out
    lEvents,     \* leman_flow::event::Event shared objects, indexed by id
    lPassports,  \* leman_flow::passport::Passport objects, indexed by id
    lPools,      \* leman_flow::grant_pool::GrantPool objects, indexed by id
    lLedger,     \* history, per leman_flow pool: coins put in and taken out
    lPaid,       \* history: coins claim_reward returned, per <<passport, mission>>
    lClaimed,    \* history: reward paid by the transaction that wrote the
                 \* attestation, per <<passport, mission>>
    package,     \* the package whose transactions the behaviour submits
    qrClock,     \* qrService: Date.now() as last read, in ms
    nextCleanup, \* qrService: when the setInterval cleanup is next due, in ms
    usedNonces,  \* qrService: the usedNonces Set
    qrTokens,    \* qrService: the tokens generateMissionQR has returned
    qrAccepted,  \* history: how often verifyQRToken returned valid, per token
    counters,    \* sui_hackathon::counter::Counter shared objects, indexed by id
    counterLog,  \* history, per Counter: its creator, the increments and the
                 \* set_value calls that succeeded
    app,         \* sui_hackathon::example::App shared object
    appLog,      \* history: the example::increment calls that succeeded
    userSalts,   \* backend index.js: the userSalts Map
    firstSalt,   \* history: the salt the first POST /api/login returned, per sub
    loginClock,  \* backend index.js: Date.now() as last read, in ms
    sponsored    \* history: the requests whose transaction POST /api/claim
                 \* signed with the sponsor key and submitted

hackVars == <<events, caps, passports, paid, attested, received, eventFunded>>
poolVars == <<pools, poolCaps, poolLedger>>
lemanVars == <<lEvents, lPassports, lPools, lLedger, lPaid, lClaimed>>
qrVars == <<qrClock, nextCleanup, usedNonces, qrTokens, qrAccepted>>
counterVars == <<counters, counterLog, app, appLog>>
loginVars == <<userSalts, firstSalt, loginClock, sponsored>>
notHack == <<poolVars, lemanVars, package, qrVars, counterVars, loginVars>>
notPool == <<hackVars, lemanVars, package, qrVars, counterVars, loginVars>>
notLeman == <<hackVars, poolVars, package, qrVars, counterVars, loginVars>>
notQr == <<hackVars, poolVars, lemanVars, clock, package, counterVars, loginVars>>
notCounter == <<hackVars, poolVars, lemanVars, clock, package, qrVars, loginVars>>
notLogin == <<hackVars, poolVars, lemanVars, clock, package, qrVars, counterVars>>
vars == <<events, caps, passports, clock, paid, attested, received, eventFunded,
          pools, poolCaps, poolLedger,
          lEvents, lPassports, lPools, lLedger, lPaid, lClaimed, package,
          qrClock, nextCleanup, usedNonces, qrTokens, qrAccepted,
          counters, counterLog, app, appLog, userSalts, firstSalt, loginClock,
          sponsored>>

(***************************************************************************)
(* Bounds of the model                                                     *)
(***************************************************************************)
MaxEvents == 2
MaxMissions == 2
MaxPassports == 2
MaxObjects == 5
MaxPool == 2
MaxCoin == 2
MaxReward == 2
MaxTime == 1
MaxPools == 2
MaxPoolFunds == 3
MaxBatch == 2
MaxLEvents == 1
MaxLPools == 1
MaxFunded == 4
MaxTokens == 2
MaxCallMs == 2
MaxCounters == 2
MaxIncrements == 3
MaxU64 == 3
MaxLoginTime == 2

\* Constants of qrService.ts
CleanupIntervalMs == 3600000
CleanupAgeMs == 3600000
MaxAgeMs == 3600000
ExpiresInSeconds == 3600
MsPerSecond == 1000

Addr == {"alice", "bob"}
Organizers == {"alice"}
Names == {"Hackathon"}
Titles == {"Scan"}
Descriptions == {"desc"}
Coins == 1..MaxCoin
Rewards == {0, MaxReward}
Timestamps == 0..MaxTime

(***************************************************************************)
(* Abort codes: <<module, code>>; Ok is a transaction that committed.       *)
(***************************************************************************)
Ok == <<"ok", 0>>
mission_ENotOrganizer == <<"sui_hackathon::mission", 1>>
mission_EMissionNotFound == <<"sui_hackathon::mission", 2>>
mission_EMissionInactive == <<"sui_hackathon::mission", 3>>
mission_EAlreadyCompleted == <<"sui_hackathon::mission", 4>>
mission_EInvalidQR == <<"sui_hackathon::mission", 5>>
mission_EInsufficientFunds == <<"sui_hackathon::mission", 6>>
event_ENotOrganizer == <<"sui_hackathon::event", 1>>
event_EEventInactive == <<"sui_hackathon::event", 2>>
event_EInsufficientFunds == <<"sui_hackathon::event", 3>>
passport_EAttestationExists == <<"sui_hackathon::passport", 3>>
grant_pool_EInsufficientFunds == <<"sui_hackathon::grant_pool", 0>>
grant_pool_ENotAuthorized == <<"sui_hackathon::grant_pool", 1>>
grant_pool_EPoolNotActive == <<"sui_hackathon::grant_pool", 2>>
grant_pool_EInvalidAmount == <<"sui_hackathon::grant_pool", 3>>
\* sui::dynamic_field aborts raised by df::add / df::borrow / df::borrow_mut
df_EFieldAlreadyExists == <<"sui::dynamic_field", 0>>
df_EFieldDoesNotExist == <<"sui::dynamic_field", 1>>

(***************************************************************************)
(* Dynamic fields: a bag of fields is a function from keys to values.      *)
(***************************************************************************)
NoFields == [k \in {} |-> 0]

df_exists_(fields, key) == key \in DOMAIN fields

df_put(fields, key, value) ==
    [k \in DOMAIN fields \cup {key} |-> IF k = key THEN value ELSE fields[k]]


(***************************************************************************)
(* QR proofs.  A proof is the byte vector the backend hands out for one    *)
(* user and one mission; it is authentic when it carries the secret whose  *)
(* hash the mission stores and names the caller and the mission.           *)
(***************************************************************************)
QrSecret == "qr-secret"
Hash(secret) == <<"sha", secret>>
QrProof(secret, user, mission_id) == <<secret, user, mission_id>>
ForgedProof == QrProof("guess", "nobody", MaxMissions)

(***************************************************************************)
(* sui_hackathon::event                                                    *)
(***************************************************************************)
Event(name, description, organizer, start_time, end_time) ==
    [name |-> name, description |-> description, organizer |-> organizer,
     start_time |-> start_time, end_time |-> end_time,
     grant_pool |-> 0, total_missions |-> 0, active |-> TRUE,
     missions |-> NoFields]

EventAdminCap(event_id, owner) == [event_id |-> event_id, owner |-> owner]

\* create_event: the Event it shares and the EventAdminCap it transfers to
\* the sender; event_id is the id of the new object.
create_event(name, description, start_time, end_time, event_id, sender) ==
    [abort |-> Ok,
     event |-> Event(name, description, sender, start_time, end_time),
     cap |-> EventAdminCap(event_id, sender)]

is_active(event) == event.active

get_name(event) == event.name

get_total_missions(event) == event.total_missions

get_grant_pool_balance(event) == event.grant_pool

increment_missions(event) == [event EXCEPT !.total_missions = @ + 1]

set_event_status(_admin_cap, event, active) ==
    [abort |-> Ok, event |-> [event EXCEPT !.active = active]]

\* A fund_event that credits the payment twice.
fund_event_twice(event, payment) == [event EXCEPT !.grant_pool = @ + payment + payment]

fund_event(event, payment) == [event EXCEPT !.grant_pool = @ + payment]

\* Mutant of withdraw_reward: the coin is minted without debiting the pool.
withdraw_reward_undebited(event, amount) ==
    IF ~(get_grant_pool_balance(event) >= amount)
    THEN [abort |-> event_EInsufficientFunds, event |-> event, coin |-> 0]
    ELSE [abort |-> Ok, event |-> event, coin |-> amount]

\* Mutant of withdraw_reward: the balance assertion is left out.
withdraw_reward_unchecked(event, amount) ==
    [abort |-> Ok,
     event |-> [event EXCEPT !.grant_pool = @ - amount],
     coin |-> amount]

withdraw_reward(event, amount) ==
    IF ~(get_grant_pool_balance(event) >= amount)
    THEN [abort |-> event_EInsufficientFunds, event |-> event, coin |-> 0]
    ELSE [abort |-> Ok,
          event |-> [event EXCEPT !.grant_pool = @ - amount],
          coin |-> amount]

(***************************************************************************)
(* sui_hackathon::passport                                                 *)
(***************************************************************************)
Passport(owner, created_at) ==
    [owner |-> owner, created_at |-> created_at, attestation_count |-> 0,
     attestations |-> NoFields]

Attestation(event_id, event_name, mission_id, mission_title, completed_at, reward_amount) ==
    [event_id |-> event_id, event_name |-> event_name, mission_id |-> mission_id,
     mission_title |-> mission_title, completed_at |-> completed_at,
     reward_amount |-> reward_amount]

AttestationKey(event_id, mission_id) == <<event_id, mission_id>>

has_attestation(passport, event_id, mission_id) ==
    df_exists_(passport.attestations, AttestationKey(event_id, mission_id))

\* Mutant of add_attestation: the owner field is written along with the
\* attestation.
add_attestation_reowned(passport, event_id, event_name, mission_id, mission_title, completed_at, reward_amount) ==
    LET key == AttestationKey(event_id, mission_id)
        attestation == Attestation(event_id, event_name, mission_id,
                                   mission_title, completed_at, reward_amount)
    IN  IF df_exists_(passport.attestations, key)
        THEN [abort |-> passport_EAttestationExists, passport |-> passport]
        ELSE [abort |-> Ok,
              passport |-> [passport EXCEPT
                            !.owner = event_name,
                            !.attestations = df_put(@, key, attestation),
                            !.attestation_count = @ + 1]]

add_attestation(passport, event_id, event_name, mission_id, mission_title, completed_at, reward_amount) ==
    LET key == AttestationKey(event_id, mission_id)
        attestation == Attestation(event_id, event_name, mission_id,
                                   mission_title, completed_at, reward_amount)
    IN  IF df_exists_(passport.attestations, key)
        THEN [abort |-> passport_EAttestationExists, passport |-> passport]
        ELSE [abort |-> Ok,
              passport |-> [passport EXCEPT
                            !.attestations = df_put(@, key, attestation),
                            !.attestation_count = @ + 1]]

(***************************************************************************)
(* sui_hackathon::mission                                                  *)
(***************************************************************************)
Mission(mission_id, title, description, reward_amount, qr_secret_hash) ==
    [mission_id |-> mission_id, title |-> title, description |-> description,
     reward_amount |-> reward_amount, qr_secret_hash |-> qr_secret_hash,
     active |-> TRUE, completions |-> 0]

MissionKey(mission_id) == mission_id

mission_exists(event, mission_id) == df_exists_(event.missions, MissionKey(mission_id))

\* Mutant of create_mission: the event's mission counter is not incremented.
create_mission_uncounted(_admin_cap, event, title, description, reward_amount, qr_secret_hash) ==
    LET mission_id == get_total_missions(event)
        mission == Mission(mission_id, title, description, reward_amount, qr_secret_hash)
        key == MissionKey(mission_id)
    IN  IF df_exists_(event.missions, key)
        THEN [abort |-> df_EFieldAlreadyExists, event |-> event]
        ELSE [abort |-> Ok,
              event |-> [event EXCEPT !.missions = df_put(@, key, mission)]]

create_mission(_admin_cap, event, title, description, reward_amount, qr_secret_hash) ==
    LET mission_id == get_total_missions(event)
        mission == Mission(mission_id, title, description, reward_amount, qr_secret_hash)
        key == MissionKey(mission_id)
    IN  IF df_exists_(event.missions, key)
        THEN [abort |-> df_EFieldAlreadyExists, event |-> event]
        ELSE [abort |-> Ok,
              event |-> increment_missions(
                          [event EXCEPT !.missions = df_put(@, key, mission)])]

\* Mutant of complete_mission_and_reward: the reward is paid but the
\* attestation is never recorded in the passport.
complete_mission_and_reward_unrecorded(event, passport, event_id, mission_id, qr_proof, now, sender) ==
    LET key == MissionKey(mission_id)
        Abort(code) == [abort |-> code, event |-> event, passport |-> passport,
                        to |-> "", coin |-> 0]
    IN  IF ~is_active(event) THEN Abort(mission_EMissionInactive)
        ELSE IF ~df_exists_(event.missions, key) THEN Abort(df_EFieldDoesNotExist)
        ELSE LET mission_ref == event.missions[key] IN
        IF ~mission_ref.active THEN Abort(mission_EMissionInactive)
        ELSE IF has_attestation(passport, event_id, mission_id)
             THEN Abort(mission_EAlreadyCompleted)
        ELSE LET reward_amount == mission_ref.reward_amount
                 w == withdraw_reward(event, reward_amount)
             IN
        IF w.abort # Ok THEN Abort(w.abort)
        ELSE [abort |-> Ok,
              event |-> [w.event EXCEPT !.missions[key].completions = @ + 1],
              passport |-> passport,
              to |-> sender, coin |-> w.coin]

\* Mutant of complete_mission_and_reward: the reward is transferred to the
\* organizer of the event.
complete_mission_and_reward_to_organizer(event, passport, event_id, mission_id, qr_proof, now, sender) ==
    LET key == MissionKey(mission_id)
        Abort(code) == [abort |-> code, event |-> event, passport |-> passport,
                        to |-> "", coin |-> 0]
    IN  IF ~is_active(event) THEN Abort(mission_EMissionInactive)
        ELSE IF ~df_exists_(event.missions, key) THEN Abort(df_EFieldDoesNotExist)
        ELSE LET mission_ref == event.missions[key] IN
        IF ~mission_ref.active THEN Abort(mission_EMissionInactive)
        ELSE IF has_attestation(passport, event_id, mission_id)
             THEN Abort(mission_EAlreadyCompleted)
        ELSE LET reward_amount == mission_ref.reward_amount
                 w == withdraw_reward(event, reward_amount)
             IN
        IF w.abort # Ok THEN Abort(w.abort)
        ELSE LET a == add_attestation(passport, event_id, get_name(event), mission_id,
                                      mission_ref.title, now, reward_amount)
             IN
        IF a.abort # Ok THEN Abort(a.abort)
        ELSE [abort |-> Ok,
              event |-> [w.event EXCEPT !.missions[key].completions = @ + 1],
              passport |-> a.passport,
              to |-> event.organizer, coin |-> w.coin]

\* A complete_mission_and_reward that pays and attests without updating the
\* mission's completions.
complete_mission_and_reward_uncounted(event, passport, event_id, mission_id, qr_proof, now, sender) ==
    LET key == MissionKey(mission_id)
        Abort(code) == [abort |-> code, event |-> event, passport |-> passport,
                        to |-> "", coin |-> 0]
    IN  IF ~is_active(event) THEN Abort(mission_EMissionInactive)
        ELSE IF ~df_exists_(event.missions, key) THEN Abort(df_EFieldDoesNotExist)
        ELSE LET mission_ref == event.missions[key] IN
        IF ~mission_ref.active THEN Abort(mission_EMissionInactive)
        ELSE IF has_attestation(passport, event_id, mission_id)
             THEN Abort(mission_EAlreadyCompleted)
        ELSE LET reward_amount == mission_ref.reward_amount
                 w == withdraw_reward(event, reward_amount)
             IN
        IF w.abort # Ok THEN Abort(w.abort)
        ELSE LET a == add_attestation(passport, event_id, get_name(event), mission_id,
                                      mission_ref.title, now, reward_amount)
             IN
        IF a.abort # Ok THEN Abort(a.abort)
        ELSE [abort |-> Ok,
              event |-> w.event,
              passport |-> a.passport,
              to |-> sender, coin |-> w.coin]

complete_mission_and_reward(event, passport, event_id, mission_id, qr_proof, now, sender) ==
    LET key == MissionKey(mission_id)
        Abort(code) == [abort |-> code, event |-> event, passport |-> passport,
                        to |-> "", coin |-> 0]
    IN  IF ~is_active(event) THEN Abort(mission_EMissionInactive)
        ELSE IF ~df_exists_(event.missions, key) THEN Abort(df_EFieldDoesNotExist)
        ELSE LET mission_ref == event.missions[key] IN
        IF ~mission_ref.active THEN Abort(mission_EMissionInactive)
        ELSE IF has_attestation(passport, event_id, mission_id)
             THEN Abort(mission_EAlreadyCompleted)
        ELSE LET reward_amount == mission_ref.reward_amount
                 w == withdraw_reward(event, reward_amount)
             IN
        IF w.abort # Ok THEN Abort(w.abort)
        ELSE LET a == add_attestation(passport, event_id, get_name(event), mission_id,
                                      mission_ref.title, now, reward_amount)
             IN
        IF a.abort # Ok THEN Abort(a.abort)
        ELSE [abort |-> Ok,
              event |-> [w.event EXCEPT !.missions[key].completions = @ + 1],
              passport |-> a.passport,
              to |-> sender, coin |-> w.coin]

\* A set_mission_status that also starts the mission's completions afresh.
set_mission_status_resetting(_admin_cap, event, mission_id, active) ==
    LET key == MissionKey(mission_id)
    IN  IF ~df_exists_(event.missions, key)
        THEN [abort |-> df_EFieldDoesNotExist, event |-> event]
        ELSE [abort |-> Ok,
              event |-> [event EXCEPT !.missions[key].active = active,
                                      !.missions[key].completions = 0]]

set_mission_status(_admin_cap, event, mission_id, active) ==
    LET key == MissionKey(mission_id)
    IN  IF ~df_exists_(event.missions, key)
        THEN [abort |-> df_EFieldDoesNotExist, event |-> event]
        ELSE [abort |-> Ok, event |-> [event EXCEPT !.missions[key].active = active]]


(***************************************************************************)
(* Transactions on the sui_hackathon package.  An owned object (a          *)
(* Passport, an EventAdminCap) can only be passed by its owner, so the     *)
(* sender of such a transaction is that owner; an Event is shared.         *)
(***************************************************************************)
EventIds == 1..Len(events)
CapIds == 1..Len(caps)
PassportIds == 1..Len(passports)
MissionIds == 0..(MaxMissions - 1)

RECURSIVE SumMissions(_)
SumMissions(n) == IF n = 0 THEN 0 ELSE events[n].total_missions + SumMissions(n - 1)

TotalMissions == SumMissions(Len(events))

Objects == Len(events) + TotalMissions + Len(passports)

Count(history, key) == IF key \in DOMAIN history THEN history[key] ELSE 0

Bump(history, key) == df_put(history, key, Count(history, key) + 1)

Committed(r) == r.abort = Ok

Call_create_event(sender, name, description, start_time, end_time) ==
    /\ Len(events) < MaxEvents
    /\ Objects < MaxObjects
    /\ LET event_id == Len(events) + 1
           r == create_event(name, description, start_time, end_time, event_id, sender)
       IN  /\ events' = IF Committed(r) THEN Append(events, r.event) ELSE events
           /\ caps' = IF Committed(r) THEN Append(caps, r.cap) ELSE caps
           /\ eventFunded' = IF Committed(r) THEN Append(eventFunded, 0) ELSE eventFunded
    /\ UNCHANGED <<passports, clock, paid, attested, received, notHack>>

Call_fund_event(e, payment) ==
    /\ events[e].grant_pool + payment <= MaxPool
    /\ events' = [events EXCEPT ![e] = fund_event(@, payment)]
    /\ eventFunded' = [eventFunded EXCEPT ![e] = @ + payment]
    /\ UNCHANGED <<caps, passports, clock, paid, attested, received, notHack>>

Call_set_event_status(c, e, active) ==
    LET r == set_event_status(caps[c], events[e], active)
    IN  /\ events' = IF Committed(r) THEN [events EXCEPT ![e] = r.event] ELSE events
        /\ UNCHANGED <<caps, passports, clock, paid, attested, received, eventFunded, notHack>>

Call_create_mission(c, e, title, description, reward_amount, qr_secret_hash) ==
    /\ TotalMissions < MaxMissions
    /\ Objects < MaxObjects
    /\ LET r == create_mission(caps[c], events[e], title, description,
                               reward_amount, qr_secret_hash)
       IN  events' = IF Committed(r) THEN [events EXCEPT ![e] = r.event] ELSE events
    /\ UNCHANGED <<caps, passports, clock, paid, attested, received, eventFunded, notHack>>

Call_set_mission_status(c, e, mission_id, active) ==
    LET r == set_mission_status(caps[c], events[e], mission_id, active)
    IN  /\ events' = IF Committed(r) THEN [events EXCEPT ![e] = r.event] ELSE events
        /\ UNCHANGED <<caps, passports, clock, paid, attested, received, eventFunded, notHack>>

Call_register_passport(sender, clock_timestamp) ==
    /\ Len(passports) < MaxPassports
    /\ Objects < MaxObjects
    /\ passports' = Append(passports, Passport(sender, clock_timestamp))
    /\ UNCHANGED <<events, caps, clock, paid, attested, received, eventFunded, notHack>>

Call_complete_mission_and_reward(e, p, mission_id, qr_proof) ==
    LET sender == passports[p].owner
        r == complete_mission_and_reward(events[e], passports[p], e, mission_id,
                                         qr_proof, clock, sender)
        key == <<p, e, mission_id>>
        wrote == r.passport.attestations # passports[p].attestations
    IN  /\ events' = IF Committed(r) THEN [events EXCEPT ![e] = r.event] ELSE events
        /\ passports' = IF Committed(r) THEN [passports EXCEPT ![p] = r.passport]
                        ELSE passports
        /\ paid' = IF Committed(r) THEN Bump(paid, key) ELSE paid
        /\ received' = IF Committed(r)
                       THEN df_put(received, r.to, Count(received, r.to) + r.coin)
                       ELSE received
        /\ attested' = IF Committed(r) /\ wrote THEN Bump(attested, key) ELSE attested
        /\ UNCHANGED <<caps, clock, eventFunded, notHack>>

Tick ==
    /\ clock < MaxTime
    /\ clock' = clock + 1
    /\ UNCHANGED <<events, caps, passports, paid, attested, received, eventFunded, notHack>>

(***************************************************************************)
(* sui_hackathon::counter and sui_hackathon::example.  A u64 is modelled   *)
(* with its width cut down: MaxU64 stands for the largest u64, and an      *)
(* addition that passes it aborts the transaction, as Move arithmetic does.*)
(***************************************************************************)
counter_ENotOwner == <<"sui_hackathon::counter", 0>>
move_EArithmetic == <<"move", "ARITHMETIC_ERROR">>
sui_ESharedObjectOperationNotAllowed == <<"sui", "SharedObjectOperationNotAllowed">>

U64 == 0..MaxU64

Counter(owner) == [owner |-> owner, value |-> 0]

\* create: the Counter it shares (the OwnerCap goes to the sender).
counter_create(sender) == [abort |-> Ok, counter |-> Counter(sender)]

counter_increment(counter) ==
    IF counter.value + 1 > MaxU64
    THEN [abort |-> move_EArithmetic, counter |-> counter]
    ELSE [abort |-> Ok, counter |-> [counter EXCEPT !.value = @ + 1]]

\* Mutant of set_value: the sender is not compared with the owner.
counter_set_value_by_anyone(counter, value, sender) ==
    [abort |-> Ok, counter |-> [counter EXCEPT !.value = value]]

counter_set_value(counter, value, sender) ==
    IF ~(counter.owner = sender)
    THEN [abort |-> counter_ENotOwner, counter |-> counter]
    ELSE [abort |-> Ok, counter |-> [counter EXCEPT !.value = value]]

\* freeze_counter takes the shared Counter by value and freezes it, which
\* the Sui runtime refuses for a shared object: the transaction fails.
counter_freeze_counter(_owner_cap, counter) ==
    [abort |-> sui_ESharedObjectOperationNotAllowed, counter |-> counter]

\* example::init, run when the package is published.
example_init == [name |-> "SUI Hackathon dApp", counter |-> 0]

\* Mutant of example::increment: the counter is raised by two.
example_increment_twice(a) ==
    IF a.counter + 2 > MaxU64
    THEN [abort |-> move_EArithmetic, app |-> a]
    ELSE [abort |-> Ok, app |-> [a EXCEPT !.counter = @ + 2]]

example_increment(a) ==
    IF a.counter + 1 > MaxU64
    THEN [abort |-> move_EArithmetic, app |-> a]
    ELSE [abort |-> Ok, app |-> [a EXCEPT !.counter = @ + 1]]

example_update_name(_admin_cap, a, new_name) ==
    [abort |-> Ok, app |-> [a EXCEPT !.name = new_name]]

(***************************************************************************)
(* backend index.js: the zkLogin salts.  Buffer.from(str).toString('hex')  *)
(* is one-to-one on strings, so a salt is the string it encodes, taken     *)
(* apart: the prefix, the sub and the time.                                *)
(***************************************************************************)
Salt(sub, now) == <<"salt", sub, now>>

\* A login handler that issues a new salt at every call, whatever the Map
\* holds.
post_login_fresh(salts, jwt, sub, now) ==
    IF jwt = "" \/ sub = ""
    THEN [code |-> 400, body |-> [error |-> "Missing jwt or sub"], userSalts |-> salts]
    ELSE [code |-> 200, body |-> [salt |-> Salt(sub, now), sub |-> sub],
          userSalts |-> [k \in DOMAIN salts \cup {sub} |-> IF k = sub THEN Salt(sub, now) ELSE salts[k]]]

\* POST /api/login: the reply and the Map as the handler leaves it.
post_login(salts, jwt, sub, now) ==
    IF jwt = "" \/ sub = ""
    THEN [code |-> 400, body |-> [error |-> "Missing jwt or sub"], userSalts |-> salts]
    ELSE IF sub \in DOMAIN salts
    THEN [code |-> 200, body |-> [salt |-> salts[sub], sub |-> sub], userSalts |-> salts]
    ELSE [code |-> 200, body |-> [salt |-> Salt(sub, now), sub |-> sub],
          userSalts |-> df_put(salts, sub, Salt(sub, now))]

\* GET /api/salt/:sub
get_salt(salts, sub) ==
    IF sub \notin DOMAIN salts
    THEN [code |-> 404, body |-> [error |-> "Salt not found"], userSalts |-> salts]
    ELSE [code |-> 200, body |-> [salt |-> salts[sub]], userSalts |-> salts]

\* The qrService module as loaded at time load: nothing issued, nothing used,
\* the cleanup due one interval later.
QrLoaded(load) ==
    /\ qrClock = load
    /\ nextCleanup = load + CleanupIntervalMs
    /\ usedNonces = {}
    /\ qrTokens = {}
    /\ qrAccepted = NoFields

NoObjects ==
    /\ events = <<>>
    /\ caps = <<>>
    /\ passports = <<>>
    /\ clock = 0
    /\ paid = NoFields
    /\ attested = NoFields
    /\ received = NoFields
    /\ eventFunded = <<>>
    /\ pools = <<>>
    /\ poolCaps = <<>>
    /\ poolLedger = <<>>
    /\ lEvents = <<>>
    /\ lPassports = <<>>
    /\ lPools = <<>>
    /\ lLedger = <<>>
    /\ lPaid = NoFields
    /\ lClaimed = NoFields
    /\ counters = <<>>
    /\ counterLog = <<>>
    /\ app = example_init
    /\ appLog = 0
    /\ userSalts = NoFields
    /\ firstSalt = NoFields
    /\ loginClock = 0
    /\ sponsored = {}

Empty == NoObjects /\ QrLoaded(0)

\* The two packages share no object, so a behaviour submits the transactions
\* of one of them: package names it and never changes.
InHackathon == package = "sui_hackathon"
InLemanFlow == package = "leman_flow"

Init == Empty /\ InHackathon

Next ==
    \/ \E sender \in Organizers, name \in Names, description \in Descriptions :
          InHackathon /\ Call_create_event(sender, name, description, 0, 1)
    \/ \E e \in EventIds, payment \in Coins :
          InHackathon /\ Call_fund_event(e, payment)
    \/ \E c \in CapIds, e \in EventIds, active \in BOOLEAN :
          InHackathon /\ Call_set_event_status(c, e, active)
    \/ \E c \in CapIds, e \in EventIds, title \in Titles,
          description \in Descriptions, reward_amount \in Rewards :
          InHackathon /\ Call_create_mission(c, e, title, description, reward_amount, Hash(QrSecret))
    \/ \E c \in CapIds, e \in EventIds, mission_id \in MissionIds, active \in BOOLEAN :
          InHackathon /\ Call_set_mission_status(c, e, mission_id, active)
    \/ \E sender \in Addr :
          InHackathon /\ Call_register_passport(sender, 0)
    \/ \E e \in EventIds, p \in PassportIds, mission_id \in MissionIds :
          \E qr_proof \in {QrProof(QrSecret, passports[p].owner, mission_id),
                           ForgedProof} :
             InHackathon /\ Call_complete_mission_and_reward(e, p, mission_id, qr_proof)
    \/ InHackathon /\ Tick

Spec == Init /\ [][Next]_vars



(***************************************************************************)
(* sui_hackathon::grant_pool                                               *)
(***************************************************************************)
GrantPool(event_name, admin, initial_funding, created_at) ==
    [event_name |-> event_name, admin |-> admin, balance |-> initial_funding,
     total_distributed |-> 0, recipients_count |-> 0, active |-> TRUE,
     created_at |-> created_at]

GrantPoolAdminCap(pool_id, owner) == [pool_id |-> pool_id, owner |-> owner]

fund_pool(pool, funding) ==
    IF ~pool.active
    THEN [abort |-> grant_pool_EPoolNotActive, pool |-> pool]
    ELSE [abort |-> Ok, pool |-> [pool EXCEPT !.balance = @ + funding]]

\* Mutant of distribute_grant: the grant is paid but total_distributed is
\* left as it was.
distribute_grant_uncounted(pool, _admin_cap, recipient, amount) ==
    IF ~pool.active
    THEN [abort |-> grant_pool_EPoolNotActive, pool |-> pool, grants |-> <<>>]
    ELSE IF ~(amount > 0)
    THEN [abort |-> grant_pool_EInvalidAmount, pool |-> pool, grants |-> <<>>]
    ELSE IF ~(pool.balance >= amount)
    THEN [abort |-> grant_pool_EInsufficientFunds, pool |-> pool, grants |-> <<>>]
    ELSE [abort |-> Ok,
          pool |-> [pool EXCEPT !.balance = @ - amount,
                                !.recipients_count = @ + 1],
          grants |-> << <<recipient, amount>> >>]

distribute_grant(pool, _admin_cap, recipient, amount) ==
    IF ~pool.active
    THEN [abort |-> grant_pool_EPoolNotActive, pool |-> pool, grants |-> <<>>]
    ELSE IF ~(amount > 0)
    THEN [abort |-> grant_pool_EInvalidAmount, pool |-> pool, grants |-> <<>>]
    ELSE IF ~(pool.balance >= amount)
    THEN [abort |-> grant_pool_EInsufficientFunds, pool |-> pool, grants |-> <<>>]
    ELSE [abort |-> Ok,
          pool |-> [pool EXCEPT !.balance = @ - amount,
                                !.total_distributed = @ + amount,
                                !.recipients_count = @ + 1],
          grants |-> << <<recipient, amount>> >>]

\* The while loop of distribute_batch from index i on: one distribute_grant
\* per recipient, the first abort ending the whole call.
RECURSIVE distribute_loop(_, _, _, _, _)
distribute_loop(pool, admin_cap, recipients, amount_per_recipient, i) ==
    IF ~(i <= Len(recipients))
    THEN [abort |-> Ok, pool |-> pool, grants |-> <<>>]
    ELSE LET g == distribute_grant(pool, admin_cap, recipients[i], amount_per_recipient)
         IN  IF g.abort # Ok THEN g
             ELSE LET rest == distribute_loop(g.pool, admin_cap, recipients,
                                              amount_per_recipient, i + 1)
                  IN  [abort |-> rest.abort, pool |-> rest.pool,
                       grants |-> g.grants \o rest.grants]

\* Mutant of distribute_batch: no check of the total, the recipients are
\* paid one by one until a grant fails.
distribute_batch_piecemeal(pool, admin_cap, recipients, amount_per_recipient) ==
    IF ~pool.active
    THEN [abort |-> grant_pool_EPoolNotActive, pool |-> pool, grants |-> <<>>]
    ELSE distribute_loop(pool, admin_cap, recipients, amount_per_recipient, 1)

distribute_batch(pool, admin_cap, recipients, amount_per_recipient) ==
    IF ~pool.active
    THEN [abort |-> grant_pool_EPoolNotActive, pool |-> pool, grants |-> <<>>]
    ELSE LET total_needed == amount_per_recipient * Len(recipients)
         IN  IF ~(pool.balance >= total_needed)
             THEN [abort |-> grant_pool_EInsufficientFunds, pool |-> pool,
                   grants |-> <<>>]
             ELSE LET b == distribute_loop(pool, admin_cap, recipients,
                                           amount_per_recipient, 1)
                  IN  IF b.abort # Ok
                      THEN [abort |-> b.abort, pool |-> pool, grants |-> <<>>]
                      ELSE b

deactivate_pool(pool, _admin_cap) ==
    [abort |-> Ok, pool |-> [pool EXCEPT !.active = FALSE]]

reactivate_pool(pool, _admin_cap) ==
    [abort |-> Ok, pool |-> [pool EXCEPT !.active = TRUE]]

\* Mutant of withdraw_remaining: the balance is not compared with the amount.
withdraw_remaining_unchecked(pool, _admin_cap, amount) ==
    [abort |-> Ok, pool |-> [pool EXCEPT !.balance = @ - amount], coin |-> amount]

\* Mutant of withdraw_remaining: the amount withdrawn is added to
\* total_distributed.
withdraw_remaining_counted(pool, _admin_cap, amount) ==
    IF ~(pool.balance >= amount)
    THEN [abort |-> grant_pool_EInsufficientFunds, pool |-> pool, coin |-> 0]
    ELSE [abort |-> Ok,
          pool |-> [pool EXCEPT !.balance = @ - amount,
                                !.total_distributed = @ + amount],
          coin |-> amount]

withdraw_remaining(pool, _admin_cap, amount) ==
    IF ~(pool.balance >= amount)
    THEN [abort |-> grant_pool_EInsufficientFunds, pool |-> pool, coin |-> 0]
    ELSE [abort |-> Ok, pool |-> [pool EXCEPT !.balance = @ - amount],
          coin |-> amount]

(***************************************************************************)
(* Transactions on sui_hackathon::grant_pool.  The ledger keeps, per pool, *)
(* what the pool never stores: the initial funding, the sum of the funding *)
(* coins, the sum of the grants transferred to recipients and the sum of   *)
(* the coins handed out by withdraw_remaining.                             *)
(***************************************************************************)
PoolIds == 1..Len(pools)
PoolCapIds == 1..Len(poolCaps)
Amounts == 0..MaxCoin
Batches == {<<>>} \cup UNION {[1..n -> Addr] : n \in 1..MaxBatch}

RECURSIVE SumGrants(_)
SumGrants(grants) ==
    IF grants = <<>> THEN 0 ELSE Head(grants)[2] + SumGrants(Tail(grants))

Ledger(initial_funding) ==
    [initial_funding |-> initial_funding, funded |-> 0, granted |-> 0,
     withdrawn |-> 0]

Call_create_pool(sender, event_name, initial_funding) ==
    /\ Len(pools) < MaxPools
    /\ initial_funding <= MaxPoolFunds
    /\ LET pool_id == Len(pools) + 1
       IN  /\ pools' = Append(pools, GrantPool(event_name, sender, initial_funding, clock))
           /\ poolCaps' = Append(poolCaps, GrantPoolAdminCap(pool_id, sender))
           /\ poolLedger' = Append(poolLedger, Ledger(initial_funding))
    /\ UNCHANGED <<clock, notPool>>

Call_fund_pool(i, funding) ==
    /\ poolLedger[i].initial_funding + poolLedger[i].funded + funding <= MaxPoolFunds
    /\ LET r == fund_pool(pools[i], funding)
       IN  /\ pools' = IF Committed(r) THEN [pools EXCEPT ![i] = r.pool] ELSE pools
           /\ poolLedger' = IF Committed(r)
                            THEN [poolLedger EXCEPT ![i].funded = @ + funding]
                            ELSE poolLedger
    /\ UNCHANGED <<poolCaps, clock, notPool>>

Call_distribute_grant(i, c, recipient, amount) ==
    LET r == distribute_grant(pools[i], poolCaps[c], recipient, amount)
    IN  /\ pools' = IF Committed(r) THEN [pools EXCEPT ![i] = r.pool] ELSE pools
        /\ poolLedger' = IF Committed(r)
                         THEN [poolLedger EXCEPT ![i].granted = @ + SumGrants(r.grants)]
                         ELSE poolLedger
        /\ UNCHANGED <<poolCaps, clock, notPool>>

Call_distribute_batch(i, c, recipients, amount_per_recipient) ==
    LET r == distribute_batch(pools[i], poolCaps[c], recipients, amount_per_recipient)
    IN  /\ pools' = IF Committed(r) THEN [pools EXCEPT ![i] = r.pool] ELSE pools
        /\ poolLedger' = IF Committed(r)
                         THEN [poolLedger EXCEPT ![i].granted = @ + SumGrants(r.grants)]
                         ELSE poolLedger
        /\ UNCHANGED <<poolCaps, clock, notPool>>

Call_deactivate_pool(i, c) ==
    LET r == deactivate_pool(pools[i], poolCaps[c])
    IN  /\ pools' = IF Committed(r) THEN [pools EXCEPT ![i] = r.pool] ELSE pools
        /\ UNCHANGED <<poolCaps, poolLedger, clock, notPool>>

Call_reactivate_pool(i, c) ==
    LET r == reactivate_pool(pools[i], poolCaps[c])
    IN  /\ pools' = IF Committed(r) THEN [pools EXCEPT ![i] = r.pool] ELSE pools
        /\ UNCHANGED <<poolCaps, poolLedger, clock, notPool>>

Call_withdraw_remaining(i, c, amount) ==
    LET r == withdraw_remaining(pools[i], poolCaps[c], amount)
    IN  /\ pools' = IF Committed(r) THEN [pools EXCEPT ![i] = r.pool] ELSE pools
        /\ poolLedger' = IF Committed(r)
                         THEN [poolLedger EXCEPT ![i].withdrawn = @ + r.coin]
                         ELSE poolLedger
        /\ UNCHANGED <<poolCaps, clock, notPool>>

NextPool ==
    \/ \E sender \in Organizers, event_name \in Names, initial_funding \in Amounts :
          Call_create_pool(sender, event_name, initial_funding)
    \/ \E i \in PoolIds, funding \in Amounts :
          Call_fund_pool(i, funding)
    \/ \E i \in PoolIds, c \in PoolCapIds, recipient \in Addr, amount \in Amounts :
          Call_distribute_grant(i, c, recipient, amount)
    \/ \E i \in PoolIds, c \in PoolCapIds, recipients \in Batches,
          amount_per_recipient \in Amounts :
          Call_distribute_batch(i, c, recipients, amount_per_recipient)
    \/ \E i \in PoolIds, c \in PoolCapIds :
          Call_deactivate_pool(i, c)
    \/ \E i \in PoolIds, c \in PoolCapIds :
          Call_reactivate_pool(i, c)
    \/ \E i \in PoolIds, c \in PoolCapIds, amount \in Amounts :
          Call_withdraw_remaining(i, c, amount)

SpecPool == Init /\ [][NextPool]_vars

ClaimKeys == {<<p, e, m>> : p \in PassportIds, e \in EventIds, m \in MissionIds}

\* An authentic proof for (caller, mission): it carries the secret behind the
\* mission's qr_secret_hash and names the caller and the mission.
Authentic(qr_proof, event, mission_id, sender) ==
    /\ mission_exists(event, mission_id)
    /\ \E secret \in {QrSecret, "guess"} :
         /\ qr_proof = QrProof(secret, sender, mission_id)
         /\ Hash(secret) = event.missions[MissionKey(mission_id)].qr_secret_hash

ProofsTried(sender, mission_id) ==
    {QrProof(QrSecret, sender, mission_id), ForgedProof}

\* C1: for every passport P and mission M of event E, at most one
\* complete_mission_and_reward call for (P, E, M) ever commits: at most one
\* reward withdrawal and at most one attestation write happen for that triple.
C1_NoDoublePayout ==
    \A k \in ClaimKeys : Count(paid, k) <= 1 /\ Count(attested, k) <= 1

\* C1 witness: a reward was paid and recorded for (P, E, M) and the event,
\* the mission and the pool would still allow a further payout of it.
C1_Witness ==
    \E p \in PassportIds, e \in EventIds, m \in MissionIds :
        /\ Count(paid, <<p, e, m>>) = 1
        /\ Count(attested, <<p, e, m>>) = 1
        /\ mission_exists(events[e], m)
        /\ events[e].active /\ events[e].missions[m].active
        /\ events[e].missions[m].reward_amount > 0
        /\ events[e].grant_pool >= events[e].missions[m].reward_amount

\* C4 (as claimed): an admin-gated call on an Event made with the
\* EventAdminCap of a different event aborts with the module's
\* not-organizer error and leaves the event unchanged.
C4_CapabilityExclusivity ==
    \A c \in CapIds, e \in EventIds :
        caps[c].event_id # e =>
            /\ \A active \in BOOLEAN :
                 LET r == set_event_status(caps[c], events[e], active)
                 IN  r.abort = event_ENotOrganizer /\ r.event = events[e]
            /\ \A reward_amount \in Rewards, title \in Titles, d \in Descriptions :
                 LET r == create_mission(caps[c], events[e], title, d,
                                         reward_amount, Hash(QrSecret))
                 IN  r.abort = mission_ENotOrganizer /\ r.event = events[e]
            /\ \A m \in MissionIds, active \in BOOLEAN :
                 LET r == set_mission_status(caps[c], events[e], m, active)
                 IN  r.abort = mission_ENotOrganizer /\ r.event = events[e]

\* C6 (as claimed): complete_mission_and_reward commits only with an
\* authentic proof for (caller, mission_id); with any other proof it aborts
\* with EInvalidQR when every other check passes, and never pays.
C6_ProofRequired ==
    \A e \in EventIds, p \in PassportIds, m \in MissionIds, now \in Timestamps :
        \A qr_proof \in ProofsTried(passports[p].owner, m) :
            LET sender == passports[p].owner
                r == complete_mission_and_reward(events[e], passports[p], e, m,
                                                 qr_proof, now, sender)
                genuine == complete_mission_and_reward(
                               events[e], passports[p], e, m,
                               QrProof(QrSecret, sender, m), now, sender)
            IN  ~Authentic(qr_proof, events[e], m, sender) =>
                    /\ ~Committed(r)
                    /\ r.coin = 0
                    /\ Committed(genuine) => r.abort = mission_EInvalidQR

\* C7: a committed claim of mission M (reward r) by passport P on event E
\* changes exactly this: the pool loses r, the caller receives r, P gains the
\* one attestation keyed (E, M) with reward_amount r, P's attestation_count
\* and M's completions grow by 1; the identical claim submitted again aborts
\* with EAlreadyCompleted and changes nothing.
C7_ClaimEffect ==
    [][\A p \in PassportIds, e \in EventIds, m \in MissionIds :
         Count(paid', <<p, e, m>>) = Count(paid, <<p, e, m>>) + 1 =>
           LET ev == events[e]
               pp == passports[p]
               r == ev.missions[MissionKey(m)].reward_amount
               key == AttestationKey(e, m)
           IN  /\ events' = [events EXCEPT
                              ![e] = [ev EXCEPT
                                       !.grant_pool = @ - r,
                                       !.missions[MissionKey(m)].completions = @ + 1]]
               /\ events'[e].grant_pool >= 0
               /\ Count(received', pp.owner) = Count(received, pp.owner) + r
               /\ \A a \in Addr \ {pp.owner} : Count(received', a) = Count(received, a)
               /\ key \notin DOMAIN pp.attestations
               /\ DOMAIN passports'[p].attestations = DOMAIN pp.attestations \cup {key}
               /\ \A k \in DOMAIN pp.attestations :
                     passports'[p].attestations[k] = pp.attestations[k]
               /\ passports'[p].attestations[key].reward_amount = r
               /\ passports'[p].attestations[key].event_id = e
               /\ passports'[p].attestations[key].mission_id = m
               /\ passports'[p].attestation_count = pp.attestation_count + 1
               /\ passports'[p].owner = pp.owner
               /\ \A q \in PassportIds \ {p} : passports'[q] = passports[q]
               /\ \A now \in Timestamps, qr_proof \in ProofsTried(pp.owner, m) :
                     LET again == complete_mission_and_reward(
                                      events'[e], passports'[p], e, m,
                                      qr_proof, now, pp.owner)
                     IN  /\ again.abort = mission_EAlreadyCompleted
                         /\ again.event = events'[e]
                         /\ again.passport = passports'[p]
                         /\ again.coin = 0
      ]_vars

\* C7 witness: a claim with a positive reward has been paid and recorded.
C7_Witness ==
    \E p \in PassportIds, e \in EventIds, m \in MissionIds :
        /\ Count(paid, <<p, e, m>>) = 1
        /\ has_attestation(passports[p], e, m)
        /\ passports[p].attestations[AttestationKey(e, m)].reward_amount = MaxReward
        /\ Count(received, passports[p].owner) >= MaxReward

(***************************************************************************)
(* leman_flow::event                                                       *)
(***************************************************************************)
lf_event_EEventNotActive == <<"leman_flow::event", 0>>
lf_event_EUnauthorized == <<"leman_flow::event", 1>>
lf_event_EMissionNotFound == <<"leman_flow::event", 2>>
lf_event_EInvalidDateRange == <<"leman_flow::event", 3>>

lf_Event(name, description, start_date, end_date, admin) ==
    [name |-> name, description |-> description, start_date |-> start_date,
     end_date |-> end_date, admin |-> admin, is_active |-> TRUE,
     missions |-> NoFields]

lf_Mission(mission_id, title, description, reward_amount, qr_signature) ==
    [mission_id |-> mission_id, title |-> title, description |-> description,
     reward_amount |-> reward_amount, qr_signature |-> qr_signature,
     is_active |-> TRUE]

\* created holds the Event the call returns, and nothing when it aborts.
lf_create_event(name, description, start_date, end_date, sender) ==
    IF ~(start_date < end_date)
    THEN [abort |-> lf_event_EInvalidDateRange, created |-> <<>>]
    ELSE [abort |-> Ok,
          created |-> <<lf_Event(name, description, start_date, end_date, sender)>>]

\* An add_mission that does not look at the event's is_active flag.
lf_add_mission_when_closed(event, mission_id, title, description, reward_amount, qr_signature, sender) ==
    IF ~(sender = event.admin)
    THEN [abort |-> lf_event_EUnauthorized, event |-> event]
    ELSE IF df_exists_(event.missions, mission_id)
    THEN [abort |-> df_EFieldAlreadyExists, event |-> event]
    ELSE [abort |-> Ok,
          event |-> [event EXCEPT !.missions =
                        df_put(@, mission_id,
                               lf_Mission(mission_id, title, description,
                                          reward_amount, qr_signature))]]

lf_add_mission(event, mission_id, title, description, reward_amount, qr_signature, sender) ==
    IF ~event.is_active
    THEN [abort |-> lf_event_EEventNotActive, event |-> event]
    ELSE IF ~(sender = event.admin)
    THEN [abort |-> lf_event_EUnauthorized, event |-> event]
    ELSE IF df_exists_(event.missions, mission_id)
    THEN [abort |-> df_EFieldAlreadyExists, event |-> event]
    ELSE [abort |-> Ok,
          event |-> [event EXCEPT !.missions =
                        df_put(@, mission_id,
                               lf_Mission(mission_id, title, description,
                                          reward_amount, qr_signature))]]

lf_mission_exists(event, mission_id) == df_exists_(event.missions, mission_id)

lf_get_mission(event, mission_id) ==
    IF ~df_exists_(event.missions, mission_id)
    THEN [abort |-> lf_event_EMissionNotFound, title |-> "", description |-> "",
          reward_amount |-> 0, is_active |-> FALSE]
    ELSE LET mission == event.missions[mission_id]
         IN  [abort |-> Ok, title |-> mission.title,
              description |-> mission.description,
              reward_amount |-> mission.reward_amount,
              is_active |-> mission.is_active]

lf_deactivate_mission(event, mission_id, sender) ==
    IF ~(sender = event.admin)
    THEN [abort |-> lf_event_EUnauthorized, event |-> event]
    ELSE IF ~df_exists_(event.missions, mission_id)
    THEN [abort |-> lf_event_EMissionNotFound, event |-> event]
    ELSE [abort |-> Ok,
          event |-> [event EXCEPT !.missions[mission_id].is_active = FALSE]]

\* A deactivate_event that does not look at the sender.
lf_deactivate_event_by_anyone(event, sender) ==
    [abort |-> Ok, event |-> [event EXCEPT !.is_active = FALSE]]

lf_deactivate_event(event, sender) ==
    IF ~(sender = event.admin)
    THEN [abort |-> lf_event_EUnauthorized, event |-> event]
    ELSE [abort |-> Ok, event |-> [event EXCEPT !.is_active = FALSE]]

(***************************************************************************)
(* leman_flow::passport                                                    *)
(***************************************************************************)
lf_passport_EAlreadyCompleted == <<"leman_flow::passport", 0>>
lf_passport_EPassportNotFound == <<"leman_flow::passport", 1>>

\* missions_completed is the Table<ID, u64>, attestations the dynamic object
\* fields of the passport's UID.
lf_create_passport(name, sender, now) ==
    [owner |-> sender, name |-> name, created_at |-> now,
     missions_completed |-> NoFields, total_missions |-> 0,
     attestations |-> NoFields]

lf_create_attestation(mission_id, event_id, title, description, reward_amount, now) ==
    [mission_id |-> mission_id, event_id |-> event_id, title |-> title,
     description |-> description, completed_at |-> now,
     reward_amount |-> reward_amount]

lf_is_mission_completed(passport, mission_id) ==
    df_exists_(passport.missions_completed, mission_id)

\* Mutant of add_attestation: the new entry replaces the ledger instead of
\* joining it.
lf_add_attestation_overwriting(passport, attestation, mission_id, now) ==
    IF df_exists_(passport.missions_completed, mission_id)
    THEN [abort |-> lf_passport_EAlreadyCompleted, passport |-> passport]
    ELSE [abort |-> Ok,
          passport |-> [passport EXCEPT
              !.missions_completed = df_put(NoFields, mission_id, now),
              !.total_missions = @ + 1,
              !.attestations = df_put(NoFields, mission_id, attestation)]]

\* An add_attestation that attaches the attestation without recording the
\* completion in the table.
lf_add_attestation_unrecorded(passport, attestation, mission_id, now) ==
    IF df_exists_(passport.attestations, mission_id)
    THEN [abort |-> df_EFieldAlreadyExists, passport |-> passport]
    ELSE [abort |-> Ok,
          passport |-> [passport EXCEPT
              !.total_missions = @ + 1,
              !.attestations = df_put(@, mission_id, attestation)]]

lf_add_attestation(passport, attestation, mission_id, now) ==
    IF df_exists_(passport.missions_completed, mission_id)
    THEN [abort |-> lf_passport_EAlreadyCompleted, passport |-> passport]
    ELSE IF df_exists_(passport.attestations, mission_id)
    THEN [abort |-> df_EFieldAlreadyExists, passport |-> passport]
    ELSE [abort |-> Ok,
          passport |-> [passport EXCEPT
              !.missions_completed = df_put(@, mission_id, now),
              !.total_missions = @ + 1,
              !.attestations = df_put(@, mission_id, attestation)]]

lf_get_attestation(passport, mission_id) ==
    IF ~df_exists_(passport.attestations, mission_id)
    THEN [abort |-> lf_passport_EPassportNotFound, title |-> "",
          description |-> "", reward_amount |-> 0]
    ELSE LET attestation == passport.attestations[mission_id]
         IN  [abort |-> Ok, title |-> attestation.title,
              description |-> attestation.description,
              reward_amount |-> attestation.reward_amount]

lf_get_total_missions(passport) == passport.total_missions

(***************************************************************************)
(* leman_flow::grant_pool                                                  *)
(***************************************************************************)
lf_grant_pool_EInvalidSignature == <<"leman_flow::grant_pool", 0>>
lf_grant_pool_EAlreadyClaimed == <<"leman_flow::grant_pool", 1>>
lf_grant_pool_EInsufficientFunds == <<"leman_flow::grant_pool", 2>>
lf_grant_pool_EMissionNotFound == <<"leman_flow::grant_pool", 3>>
lf_grant_pool_EInvalidRewardAmount == <<"leman_flow::grant_pool", 4>>
balance_ENotEnough == <<"sui::balance", 2>>

LMissionIds == {"m1", "m2"}

\* bcs::to_bytes of an address and of an ID: fixed-width byte strings, one
\* per value (two bytes stand for the thirty-two).
bcs_address(a) ==
    CASE a = "alice" -> <<10, 1>>
      [] a = "bob" -> <<11, 1>>
      [] OTHER -> <<0, 0>>

bcs_ID(id) ==
    CASE id = "m1" -> <<10, 1>>
      [] id = "m2" -> <<10, 2>>
      [] OTHER -> <<0, 0>>

\* Ed25519: a signature is the value only the holder of secret_key can make
\* for message; it verifies under that key's public key and that message.
AdminSecretKey == "backend-sk"
OtherSecretKey == "participant-sk"
PublicKey(secret_key) == <<"pk", secret_key>>
Sign(secret_key, message) == [signer |-> PublicKey(secret_key), message |-> message]
ed25519_verify(signature, public_key, message) ==
    /\ signature.signer = public_key
    /\ signature.message = message

lf_construct_message(sender, mission_id) == bcs_address(sender) \o bcs_ID(mission_id)

lf_GrantPool(admin_public_key, initial_funds) ==
    [balance |-> initial_funds, admin_public_key |-> admin_public_key]

\* Mutant of claim_reward: the Ed25519 verification is left out.
lf_claim_reward_unverified(pool, passport, event, mission_id, signature, sender) ==
    IF lf_is_mission_completed(passport, mission_id)
    THEN [abort |-> lf_grant_pool_EAlreadyClaimed, pool |-> pool, coin |-> 0]
    ELSE IF ~lf_mission_exists(event, mission_id)
    THEN [abort |-> lf_grant_pool_EMissionNotFound, pool |-> pool, coin |-> 0]
    ELSE LET mission == lf_get_mission(event, mission_id)
         IN  IF ~mission.is_active
             THEN [abort |-> lf_grant_pool_EMissionNotFound, pool |-> pool, coin |-> 0]
             ELSE IF ~(mission.reward_amount > 0)
             THEN [abort |-> lf_grant_pool_EInvalidRewardAmount, pool |-> pool,
                   coin |-> 0]
             ELSE IF ~(pool.balance >= mission.reward_amount)
             THEN [abort |-> lf_grant_pool_EInsufficientFunds, pool |-> pool,
                   coin |-> 0]
             ELSE [abort |-> Ok,
                   pool |-> [pool EXCEPT !.balance = @ - mission.reward_amount],
                   coin |-> mission.reward_amount]

lf_claim_reward(pool, passport, event, mission_id, signature, sender) ==
    IF lf_is_mission_completed(passport, mission_id)
    THEN [abort |-> lf_grant_pool_EAlreadyClaimed, pool |-> pool, coin |-> 0]
    ELSE IF ~lf_mission_exists(event, mission_id)
    THEN [abort |-> lf_grant_pool_EMissionNotFound, pool |-> pool, coin |-> 0]
    ELSE LET mission == lf_get_mission(event, mission_id)
         IN  IF ~mission.is_active
             THEN [abort |-> lf_grant_pool_EMissionNotFound, pool |-> pool, coin |-> 0]
             ELSE IF ~(mission.reward_amount > 0)
             THEN [abort |-> lf_grant_pool_EInvalidRewardAmount, pool |-> pool,
                   coin |-> 0]
             ELSE IF ~ed25519_verify(signature, pool.admin_public_key,
                                     lf_construct_message(sender, mission_id))
             THEN [abort |-> lf_grant_pool_EInvalidSignature, pool |-> pool,
                   coin |-> 0]
             ELSE IF ~(pool.balance >= mission.reward_amount)
             THEN [abort |-> lf_grant_pool_EInsufficientFunds, pool |-> pool,
                   coin |-> 0]
             ELSE [abort |-> Ok,
                   pool |-> [pool EXCEPT !.balance = @ - mission.reward_amount],
                   coin |-> mission.reward_amount]

lf_add_funds(pool, coins) == [pool EXCEPT !.balance = @ + coins]

\* ctx is unused: the result does not depend on the sender.
lf_withdraw_funds(pool, amount, sender) ==
    IF ~(pool.balance >= amount)
    THEN [abort |-> balance_ENotEnough, pool |-> pool, coin |-> 0]
    ELSE [abort |-> Ok, pool |-> [pool EXCEPT !.balance = @ - amount],
          coin |-> amount]

lf_get_balance(pool) == pool.balance

(***************************************************************************)
(* leman_flow::leman_flow                                                  *)
(***************************************************************************)
lf_complete_mission(pool, passport, event, event_id, mission_id, signature, sender, now) ==
    LET failed(code) == [abort |-> code, pool |-> pool, passport |-> passport,
                         to |-> sender, coin |-> 0]
        mission == lf_get_mission(event, mission_id)
    IN  IF mission.abort # Ok THEN failed(mission.abort)
        ELSE LET claim == lf_claim_reward(pool, passport, event, mission_id,
                                          signature, sender)
             IN  IF claim.abort # Ok THEN failed(claim.abort)
                 ELSE LET attestation ==
                              lf_create_attestation(mission_id, event_id,
                                  mission.title, mission.description,
                                  mission.reward_amount, now)
                          added == lf_add_attestation(passport, attestation,
                                                      mission_id, now)
                      IN  IF added.abort # Ok THEN failed(added.abort)
                          ELSE [abort |-> Ok, pool |-> claim.pool,
                                passport |-> added.passport,
                                to |-> sender, coin |-> claim.coin]

lf_create_user_passport(name, sender, now) == lf_create_passport(name, sender, now)

\* A can_claim_mission that does not look at the passport.
lf_can_claim_mission_for_anyone(passport, event, mission_id) ==
    IF ~lf_mission_exists(event, mission_id) THEN FALSE
    ELSE lf_get_mission(event, mission_id).is_active

lf_can_claim_mission(passport, event, mission_id) ==
    IF ~lf_mission_exists(event, mission_id) THEN FALSE
    ELSE IF ~lf_get_mission(event, mission_id).is_active THEN FALSE
    ELSE ~lf_is_mission_completed(passport, mission_id)

(***************************************************************************)
(* Transactions on the leman_flow package.  A Passport is an owned object: *)
(* the sender of a transaction that takes one is its owner.  Event and     *)
(* GrantPool are taken by whoever submits the transaction.                 *)
(***************************************************************************)
LEventIds == 1..Len(lEvents)
LPassportIds == 1..Len(lPassports)
LPoolIds == 1..Len(lPools)

\* The signatures a participant can submit with a claim: any signature the
\* backend has issued (to any participant, for any mission), or one the
\* participant makes for the claim with a key of their own.
Signatures(sender, mission_id) ==
    {Sign(AdminSecretKey, lf_construct_message(a, m)) : a \in Addr, m \in LMissionIds}
        \cup {Sign(OtherSecretKey, lf_construct_message(sender, mission_id))}

LLedger(initial_funds) == [funded |-> initial_funds, withdrawn |-> 0, claimed |-> 0]

Call_lf_create_event(sender, name, description, start_date, end_date) ==
    /\ Len(lEvents) < MaxLEvents
    /\ LET r == lf_create_event(name, description, start_date, end_date, sender)
       IN  lEvents' = IF Committed(r) THEN lEvents \o r.created ELSE lEvents
    /\ UNCHANGED <<lPassports, lPools, lLedger, lPaid, lClaimed, clock, notLeman>>

Call_lf_add_mission(e, sender, mission_id, title, description, reward_amount) ==
    LET r == lf_add_mission(lEvents[e], mission_id, title, description,
                            reward_amount, Sign(AdminSecretKey, bcs_ID(mission_id)),
                            sender)
    IN  /\ lEvents' = IF Committed(r) THEN [lEvents EXCEPT ![e] = r.event] ELSE lEvents
        /\ UNCHANGED <<lPassports, lPools, lLedger, lPaid, lClaimed, clock, notLeman>>

Call_lf_deactivate_mission(e, sender, mission_id) ==
    LET r == lf_deactivate_mission(lEvents[e], mission_id, sender)
    IN  /\ lEvents' = IF Committed(r) THEN [lEvents EXCEPT ![e] = r.event] ELSE lEvents
        /\ UNCHANGED <<lPassports, lPools, lLedger, lPaid, lClaimed, clock, notLeman>>

Call_lf_deactivate_event(e, sender) ==
    LET r == lf_deactivate_event(lEvents[e], sender)
    IN  /\ lEvents' = IF Committed(r) THEN [lEvents EXCEPT ![e] = r.event] ELSE lEvents
        /\ UNCHANGED <<lPassports, lPools, lLedger, lPaid, lClaimed, clock, notLeman>>

Call_lf_create_user_passport(sender, name) ==
    /\ Len(lPassports) < MaxPassports
    /\ lPassports' = Append(lPassports, lf_create_user_passport(name, sender, clock))
    /\ UNCHANGED <<lEvents, lPools, lLedger, lPaid, lClaimed, clock, notLeman>>

Call_lf_create(admin_public_key, initial_funds) ==
    /\ Len(lPools) < MaxLPools
    /\ initial_funds <= MaxFunded
    /\ lPools' = Append(lPools, lf_GrantPool(admin_public_key, initial_funds))
    /\ lLedger' = Append(lLedger, LLedger(initial_funds))
    /\ UNCHANGED <<lEvents, lPassports, lPaid, lClaimed, clock, notLeman>>

Call_lf_add_funds(g, coins) ==
    /\ lLedger[g].funded + coins <= MaxFunded
    /\ lPools' = [lPools EXCEPT ![g] = lf_add_funds(@, coins)]
    /\ lLedger' = [lLedger EXCEPT ![g].funded = @ + coins]
    /\ UNCHANGED <<lEvents, lPassports, lPaid, lClaimed, clock, notLeman>>

Call_lf_withdraw_funds(g, amount, sender) ==
    LET r == lf_withdraw_funds(lPools[g], amount, sender)
    IN  /\ lPools' = IF Committed(r) THEN [lPools EXCEPT ![g] = r.pool] ELSE lPools
        /\ lLedger' = IF Committed(r)
                      THEN [lLedger EXCEPT ![g].withdrawn = @ + r.coin]
                      ELSE lLedger
        /\ UNCHANGED <<lEvents, lPassports, lPaid, lClaimed, clock, notLeman>>

\* grant_pool::claim_reward called on its own: the sender keeps the coin.
Call_lf_claim_reward(g, p, e, mission_id, signature) ==
    LET sender == lPassports[p].owner
        r == lf_claim_reward(lPools[g], lPassports[p], lEvents[e], mission_id,
                             signature, sender)
    IN  /\ lPools' = IF Committed(r) THEN [lPools EXCEPT ![g] = r.pool] ELSE lPools
        /\ lLedger' = IF Committed(r)
                      THEN [lLedger EXCEPT ![g].claimed = @ + r.coin]
                      ELSE lLedger
        /\ lPaid' = IF Committed(r) THEN Bump(lPaid, <<p, mission_id>>) ELSE lPaid
        /\ UNCHANGED <<lEvents, lPassports, lClaimed, clock, notLeman>>

Call_lf_complete_mission(g, p, e, mission_id, signature) ==
    LET sender == lPassports[p].owner
        r == lf_complete_mission(lPools[g], lPassports[p], lEvents[e], e,
                                 mission_id, signature, sender, clock)
    IN  /\ lPools' = IF Committed(r) THEN [lPools EXCEPT ![g] = r.pool] ELSE lPools
        /\ lPassports' = IF Committed(r)
                         THEN [lPassports EXCEPT ![p] = r.passport]
                         ELSE lPassports
        /\ lLedger' = IF Committed(r)
                      THEN [lLedger EXCEPT ![g].claimed = @ + r.coin]
                      ELSE lLedger
        /\ lPaid' = IF Committed(r) THEN Bump(lPaid, <<p, mission_id>>) ELSE lPaid
        /\ lClaimed' = IF Committed(r)
                       THEN df_put(lClaimed, <<p, mission_id>>, r.coin)
                       ELSE lClaimed
        /\ UNCHANGED <<lEvents, clock, notLeman>>

\* passport::create_attestation and passport::add_attestation called by the
\* passport's owner in one transaction.
Call_lf_add_attestation(p, mission_id, event_id, title, description, reward_amount) ==
    LET attestation == lf_create_attestation(mission_id, event_id, title,
                                             description, reward_amount, clock)
        r == lf_add_attestation(lPassports[p], attestation, mission_id, clock)
    IN  /\ lPassports' = IF Committed(r)
                         THEN [lPassports EXCEPT ![p] = r.passport]
                         ELSE lPassports
        /\ UNCHANGED <<lEvents, lPools, lLedger, lPaid, lClaimed, clock, notLeman>>

InitLeman == Empty /\ InLemanFlow

NextLeman ==
    \/ \E sender \in Organizers, name \in Names, description \in Descriptions,
          start_date \in Timestamps :
          InLemanFlow /\ Call_lf_create_event(sender, name, description, start_date, MaxTime)
    \/ \E e \in LEventIds, sender \in Addr, mission_id \in LMissionIds,
          title \in Titles, description \in Descriptions, reward_amount \in Rewards :
          InLemanFlow /\ Call_lf_add_mission(e, sender, mission_id, title, description, reward_amount)
    \/ \E e \in LEventIds, sender \in Addr, mission_id \in LMissionIds :
          InLemanFlow /\ Call_lf_deactivate_mission(e, sender, mission_id)
    \/ \E e \in LEventIds, sender \in Addr :
          InLemanFlow /\ Call_lf_deactivate_event(e, sender)
    \/ \E sender \in Addr, name \in Names :
          InLemanFlow /\ Call_lf_create_user_passport(sender, name)
    \/ \E initial_funds \in {0, MaxReward} :
          InLemanFlow /\ Call_lf_create(PublicKey(AdminSecretKey), initial_funds)
    \/ \E g \in LPoolIds :
          InLemanFlow /\ Call_lf_add_funds(g, MaxReward)
    \/ \E g \in LPoolIds, sender \in Addr :
          InLemanFlow /\ Call_lf_withdraw_funds(g, MaxReward, sender)
    \/ \E g \in LPoolIds, p \in LPassportIds, e \in LEventIds,
          mission_id \in LMissionIds :
          \E signature \in Signatures(lPassports[p].owner, mission_id) :
          InLemanFlow /\ Call_lf_claim_reward(g, p, e, mission_id, signature)
    \/ \E g \in LPoolIds, p \in LPassportIds, e \in LEventIds,
          mission_id \in LMissionIds :
          \E signature \in Signatures(lPassports[p].owner, mission_id) :
          InLemanFlow /\ Call_lf_complete_mission(g, p, e, mission_id, signature)
    \/ \E p \in LPassportIds, mission_id \in LMissionIds, e \in LEventIds,
          title \in Titles, description \in Descriptions :
          InLemanFlow /\ Call_lf_add_attestation(p, mission_id, e, title, description, MaxReward)

SpecLeman == InitLeman /\ [][NextLeman]_vars

InitPackages == Empty /\ (InHackathon \/ InLemanFlow)

NextPackages == Next \/ NextLeman

SpecPackages == InitPackages /\ [][NextPackages]_vars

(***************************************************************************)
(* Claims about the leman_flow package                                     *)
(***************************************************************************)
\* C2 (as claimed): for every passport P and mission M, the GrantPool pays
\* M's reward on behalf of P at most once, whichever public functions are
\* called (leman_flow::complete_mission, grant_pool::claim_reward).
C2_PaidAtMostOnce ==
    \A p \in LPassportIds, m \in LMissionIds : Count(lPaid, <<p, m>>) <= 1

\* The checks claim_reward makes before it verifies the signature.
ChecksBeforeSignature(passport, event, mission_id) ==
    /\ ~lf_is_mission_completed(passport, mission_id)
    /\ lf_mission_exists(event, mission_id)
    /\ event.missions[mission_id].is_active
    /\ event.missions[mission_id].reward_amount > 0

\* C5 (as claimed): a signature the pool's admin key issued for (A, M),
\* submitted by sender B for mission N with B # A or N # M, aborts
\* claim_reward with EInvalidSignature and withdraws nothing.
C5_ProofBinding ==
    \A g \in LPoolIds, p \in LPassportIds, e \in LEventIds :
      \A A \in Addr, M \in LMissionIds, N \in LMissionIds :
        LET B == lPassports[p].owner
            signature == Sign(AdminSecretKey, lf_construct_message(A, M))
            r == lf_claim_reward(lPools[g], lPassports[p], lEvents[e], N,
                                 signature, B)
        IN  (B # A \/ N # M) =>
                /\ r.abort = lf_grant_pool_EInvalidSignature
                /\ r.coin = 0
                /\ r.pool = lPools[g]

\* C5 (amended): such a signature is always rejected and nothing is
\* withdrawn; the abort code is EInvalidSignature when the checks made before
\* the verification pass (mission N not completed by the passport, existing,
\* active, with a positive reward), and the code of the first of those
\* checks that fails otherwise.
C5_ProofBindingAfterChecks ==
    \A g \in LPoolIds, p \in LPassportIds, e \in LEventIds :
      \A A \in Addr, M \in LMissionIds, N \in LMissionIds :
        LET B == lPassports[p].owner
            signature == Sign(AdminSecretKey, lf_construct_message(A, M))
            r == lf_claim_reward(lPools[g], lPassports[p], lEvents[e], N,
                                 signature, B)
        IN  (B # A \/ N # M) =>
                /\ ~Committed(r)
                /\ r.coin = 0
                /\ r.pool = lPools[g]
                /\ ChecksBeforeSignature(lPassports[p], lEvents[e], N)
                      => r.abort = lf_grant_pool_EInvalidSignature
                /\ ~ChecksBeforeSignature(lPassports[p], lEvents[e], N)
                      => r.abort \in {lf_grant_pool_EAlreadyClaimed,
                                      lf_grant_pool_EMissionNotFound,
                                      lf_grant_pool_EInvalidRewardAmount}

\* C5 witness: a funded pool, a passport and a mission for which the
\* signature issued for (sender, mission) is accepted while a signature issued
\* for another address or another mission is rejected with EInvalidSignature.
C5_Witness ==
    \E g \in LPoolIds, p \in LPassportIds, e \in LEventIds, N \in LMissionIds :
        LET B == lPassports[p].owner
            claim(A, M) == lf_claim_reward(lPools[g], lPassports[p], lEvents[e], N,
                               Sign(AdminSecretKey, lf_construct_message(A, M)), B)
        IN  /\ Committed(claim(B, N))
            /\ \E A \in Addr \ {B} :
                 claim(A, N).abort = lf_grant_pool_EInvalidSignature
            /\ \E M \in LMissionIds \ {N} :
                 claim(B, M).abort = lf_grant_pool_EInvalidSignature
            /\ Count(lPaid, <<p, N>>) = 0
            /\ \E q \in LPassportIds : \E M \in LMissionIds : Count(lPaid, <<q, M>>) > 0

\* C10 (as claimed): every attestation in a passport, and every mission
\* marked completed, was written by a transaction that paid the
\* attestation's reward_amount from a pool.
C10_AttestationsArePaid ==
    \A p \in LPassportIds :
        /\ \A m \in DOMAIN lPassports[p].attestations :
              /\ <<p, m>> \in DOMAIN lClaimed
              /\ lClaimed[<<p, m>>] = lPassports[p].attestations[m].reward_amount
              /\ lClaimed[<<p, m>>] > 0
        /\ \A m \in DOMAIN lPassports[p].missions_completed :
              <<p, m>> \in DOMAIN lClaimed

(***************************************************************************)
(* Claims about the claim operations of both packages                      *)
(***************************************************************************)
\* The checks complete_mission_and_reward makes before it withdraws.
ChecksBeforeWithdrawal(event, passport, event_id, mission_id) ==
    /\ is_active(event)
    /\ mission_exists(event, mission_id)
    /\ event.missions[MissionKey(mission_id)].active
    /\ ~has_attestation(passport, event_id, mission_id)

\* A failed claim hands back the objects as it received them and no coin.
NothingApplied(r, pool_object, passport) ==
    ~Committed(r) => /\ r.coin = 0
                     /\ r.passport = passport
                     /\ IF "event" \in DOMAIN r THEN r.event = pool_object
                                                ELSE r.pool = pool_object

\* C8 (as claimed): a claim of a mission whose reward_amount exceeds the
\* pool balance aborts with the InsufficientFunds error, and every claim
\* that aborts leaves pool, passport and mission as they were.
C8_UnderfundedClaim ==
    /\ \A e \in EventIds, p \in PassportIds, m \in MissionIds :
         \A qr_proof \in ProofsTried(passports[p].owner, m) :
           LET r == complete_mission_and_reward(events[e], passports[p], e, m,
                        qr_proof, clock, passports[p].owner)
           IN  /\ NothingApplied(r, events[e], passports[p])
               /\ (/\ mission_exists(events[e], m)
                   /\ events[e].missions[MissionKey(m)].reward_amount
                         > get_grant_pool_balance(events[e]))
                      => r.abort = event_EInsufficientFunds
    /\ \A g \in LPoolIds, p \in LPassportIds, e \in LEventIds, m \in LMissionIds :
         \A signature \in Signatures(lPassports[p].owner, m) :
           LET r == lf_complete_mission(lPools[g], lPassports[p], lEvents[e], e,
                        m, signature, lPassports[p].owner, clock)
           IN  /\ NothingApplied(r, lPools[g], lPassports[p])
               /\ (/\ lf_mission_exists(lEvents[e], m)
                   /\ lEvents[e].missions[m].reward_amount > lf_get_balance(lPools[g]))
                      => r.abort = lf_grant_pool_EInsufficientFunds

\* C8 (amended): a claim of a mission whose reward_amount exceeds the pool
\* balance always aborts; it aborts with the InsufficientFunds error when
\* every check made before the funds check passes (event and mission active,
\* mission not yet completed by the passport and, in leman_flow, positive
\* reward and verified signature), and with the error of an earlier check
\* otherwise.  Every claim that aborts leaves pool, passport and mission as
\* they were.
C8_UnderfundedClaimAfterChecks ==
    /\ \A e \in EventIds, p \in PassportIds, m \in MissionIds :
         \A qr_proof \in ProofsTried(passports[p].owner, m) :
           LET r == complete_mission_and_reward(events[e], passports[p], e, m,
                        qr_proof, clock, passports[p].owner)
               underfunded ==
                   /\ mission_exists(events[e], m)
                   /\ events[e].missions[MissionKey(m)].reward_amount
                         > get_grant_pool_balance(events[e])
           IN  /\ NothingApplied(r, events[e], passports[p])
               /\ underfunded => ~Committed(r)
               /\ (underfunded /\ ChecksBeforeWithdrawal(events[e], passports[p], e, m))
                      => r.abort = event_EInsufficientFunds
               /\ (underfunded /\ ~ChecksBeforeWithdrawal(events[e], passports[p], e, m))
                      => r.abort \in {mission_EMissionInactive,
                                      mission_EAlreadyCompleted}
    /\ \A g \in LPoolIds, p \in LPassportIds, e \in LEventIds, m \in LMissionIds :
         \A signature \in Signatures(lPassports[p].owner, m) :
           LET sender == lPassports[p].owner
               r == lf_complete_mission(lPools[g], lPassports[p], lEvents[e], e,
                        m, signature, sender, clock)
               direct == lf_claim_reward(lPools[g], lPassports[p], lEvents[e],
                             m, signature, sender)
               underfunded ==
                   /\ lf_mission_exists(lEvents[e], m)
                   /\ lEvents[e].missions[m].reward_amount > lf_get_balance(lPools[g])
               checked ==
                   /\ ChecksBeforeSignature(lPassports[p], lEvents[e], m)
                   /\ ed25519_verify(signature, lPools[g].admin_public_key,
                                     lf_construct_message(sender, m))
           IN  /\ NothingApplied(r, lPools[g], lPassports[p])
               /\ ~Committed(direct) => direct.coin = 0 /\ direct.pool = lPools[g]
               /\ underfunded => ~Committed(r) /\ ~Committed(direct)
               /\ (underfunded /\ checked)
                      => /\ r.abort = lf_grant_pool_EInsufficientFunds
                         /\ direct.abort = lf_grant_pool_EInsufficientFunds
               /\ (underfunded /\ ~checked)
                      => r.abort \in {lf_grant_pool_EAlreadyClaimed,
                                      lf_grant_pool_EMissionNotFound,
                                      lf_grant_pool_EInvalidRewardAmount,
                                      lf_grant_pool_EInvalidSignature}

\* C8 witness: an earlier claim was paid from the event's pool, and now an
\* active mission of the active event carries a reward larger than what is
\* left, for a passport that has not completed it.
C8_Witness ==
    \E e \in EventIds, p \in PassportIds, q \in PassportIds, m \in MissionIds :
        /\ Count(paid, <<q, e, m>>) = 1
        /\ ChecksBeforeWithdrawal(events[e], passports[p], e, m)
        /\ events[e].missions[MissionKey(m)].reward_amount
              > get_grant_pool_balance(events[e])

\* C9: the keys of a passport's attestation ledger only grow: in every step
\* every passport is still there, and every key its ledger had is still in
\* it and maps to the same attestation (in leman_flow, the same completion
\* timestamp too).
C9_LedgerOnlyGrows ==
    [][/\ \A p \in PassportIds :
            /\ p \in DOMAIN passports'
            /\ \A k \in DOMAIN passports[p].attestations :
                  /\ k \in DOMAIN passports'[p].attestations
                  /\ passports'[p].attestations[k] = passports[p].attestations[k]
       /\ \A p \in LPassportIds :
            /\ p \in DOMAIN lPassports'
            /\ \A k \in DOMAIN lPassports[p].attestations :
                  /\ k \in DOMAIN lPassports'[p].attestations
                  /\ lPassports'[p].attestations[k] = lPassports[p].attestations[k]
            /\ \A k \in DOMAIN lPassports[p].missions_completed :
                  /\ k \in DOMAIN lPassports'[p].missions_completed
                  /\ lPassports'[p].missions_completed[k]
                        = lPassports[p].missions_completed[k]
      ]_vars

\* C9 witness: a passport whose ledger gained a second attestation after the
\* first, the first written by a paid claim.
C9_Witness ==
    \E p \in LPassportIds :
        /\ DOMAIN lPassports[p].attestations = LMissionIds
        /\ \E m \in LMissionIds : <<p, m>> \in DOMAIN lClaimed

(***************************************************************************)
(* lemanflow-backend qrService.ts.  A JWT is the record of its claims and  *)
(* of the secret that signed it; jwt.verify checks the signature, then the *)
(* expiry (in whole seconds), then issuer and subject.                     *)
(***************************************************************************)
QrConfigSecret == "config.qrSecret"
OtherQrSecret == "not-the-secret"

DigitChars == <<"0", "1", "2", "3", "4", "5", "6", "7", "8", "9">>

\* The decimal digits of a number, as `${Date.now()}` prints them.
RECURSIVE Digits(_)
Digits(n) ==
    IF n < 10 THEN <<DigitChars[n + 1]>>
    ELSE Digits(n \div 10) \o <<DigitChars[(n % 10) + 1]>>

DigitValue(char) == CHOOSE d \in 0..9 : DigitChars[d + 1] = char

\* nonce.split('-')[0]: the characters before the first '-'.
RECURSIVE BeforeDash(_)
BeforeDash(str) ==
    IF str = <<>> \/ Head(str) = "-" THEN <<>>
    ELSE <<Head(str)>> \o BeforeDash(Tail(str))

\* parseInt(str, 10) of a string of decimal digits.
RECURSIVE parseInt(_)
parseInt(str) ==
    IF str = <<>> THEN 0
    ELSE 10 * parseInt(SubSeq(str, 1, Len(str) - 1)) + DigitValue(str[Len(str)])

\* `${Date.now()}-${Math.random().toString(36).substring(2, 15)}`
Nonce(now, random) == Digits(now) \o <<"-">> \o random

QRPayload(eventId, missionId, nonce, timestamp) ==
    [eventId |-> eventId, missionId |-> missionId, nonce |-> nonce,
     timestamp |-> timestamp]

\* jwt.sign(payload, secret, {expiresIn: '1h', issuer, subject}) at time now.
jwt_sign(payload, secret, now) ==
    [payload |-> payload, iat |-> now \div MsPerSecond,
     exp |-> (now \div MsPerSecond) + ExpiresInSeconds,
     iss |-> "lemanflow", sub |-> "mission-qr", signedWith |-> secret]

\* jwt.verify(token, secret, {issuer, subject}) at time now: the error it
\* throws, or "ok".
jwt_verify(token, secret, now) ==
    IF token.signedWith # secret THEN "JsonWebTokenError"
    ELSE IF (now \div MsPerSecond) >= token.exp THEN "TokenExpiredError"
    ELSE IF token.iss # "lemanflow" \/ token.sub # "mission-qr"
    THEN "JsonWebTokenError"
    ELSE "ok"

\* generateMissionQR: Date.now() is read for the nonce (t1), for the
\* timestamp (t2) and by jwt.sign (t3).
generateMissionQR(eventId, missionId, random, t1, t2, t3) ==
    jwt_sign(QRPayload(eventId, missionId, Nonce(t1, random), t2),
             QrConfigSecret, t3)

\* verifyQRToken: Date.now() is read by jwt.verify (t1) and for the age (t2).
verifyQRToken(token, used, t1, t2) ==
    LET thrown == jwt_verify(token, QrConfigSecret, t1)
        rejected(error) == [valid |-> FALSE, error |-> error, usedNonces |-> used]
    IN  IF thrown = "TokenExpiredError" THEN rejected("QR code expired")
        ELSE IF thrown = "JsonWebTokenError" THEN rejected("Invalid QR code")
        ELSE IF token.payload.nonce \in used THEN rejected("QR code already used")
        ELSE IF t2 - token.payload.timestamp > MaxAgeMs
        THEN rejected("QR code expired")
        ELSE [valid |-> TRUE, error |-> "",
              usedNonces |-> used \cup {token.payload.nonce}]

\* The setInterval callback at time now: every nonce whose leading timestamp
\* is more than an hour old is deleted.
cleanup(used, now) ==
    LET oneHourAgo == now - CleanupAgeMs
    IN  {nonce \in used : ~(parseInt(BeforeDash(nonce)) < oneHourAgo)}

(***************************************************************************)
(* The backend process: requests and the cleanup timer interleave, and     *)
(* every Date.now() returns an instant no earlier than the one before.     *)
(***************************************************************************)
Instants == {998, 999, 1000, 3600998, 3600999, 3601000}
LoadTimes == {998, 999}
Randoms == {<<"k">>, <<"z">>}

\* Two successive reads of Date.now() within one call, the first at t.
Later(t) == {u \in Instants : t <= u /\ u - t <= MaxCallMs}

\* A token signed by somebody who does not hold config.qrSecret.
Forged(token) == [token EXCEPT !.signedWith = OtherQrSecret]

Presented == qrTokens \cup {Forged(token) : token \in qrTokens}

Call_generateMissionQR(eventId, missionId, random, t1, t2, t3) ==
    /\ Cardinality(qrTokens) < MaxTokens
    /\ qrClock <= t1 /\ t2 \in Later(t1) /\ t3 \in Later(t2)
    /\ t3 - t1 <= MaxCallMs
    /\ LET token == generateMissionQR(eventId, missionId, random, t1, t2, t3)
       IN  /\ token \notin qrTokens
           /\ qrTokens' = qrTokens \cup {token}
    /\ qrClock' = t3
    /\ UNCHANGED <<nextCleanup, usedNonces, qrAccepted, notQr>>

Call_verifyQRToken(token, t1, t2) ==
    /\ qrClock <= t1 /\ t2 \in Later(t1)
    /\ LET r == verifyQRToken(token, usedNonces, t1, t2)
       IN  /\ usedNonces' = r.usedNonces
           /\ qrAccepted' = IF r.valid THEN Bump(qrAccepted, token) ELSE qrAccepted
    /\ qrClock' = t2
    /\ UNCHANGED <<nextCleanup, qrTokens, notQr>>

\* The timer callback runs once per interval, no earlier than it is due.
Cleanup(now) ==
    /\ qrClock <= now /\ nextCleanup <= now
    /\ usedNonces' = cleanup(usedNonces, now)
    /\ nextCleanup' = nextCleanup + CleanupIntervalMs
    /\ qrClock' = now
    /\ UNCHANGED <<qrTokens, qrAccepted, notQr>>

InBackend == package = "lemanflow-backend"

InitQr == NoObjects /\ InBackend /\ \E load \in LoadTimes : QrLoaded(load)

NextQr ==
    \/ \E random \in Randoms, t1 \in Instants, t2 \in Instants, t3 \in Instants :
          Call_generateMissionQR("e1", "m1", random, t1, t2, t3)
    \/ \E token \in Presented, t1 \in Instants, t2 \in Instants :
          Call_verifyQRToken(token, t1, t2)
    \/ \E now \in Instants : Cleanup(now)

SpecQr == InitQr /\ [][NextQr]_vars

\* The calls verifyQRToken can be given in the current state.
Expired(token, t1, t2) ==
    \/ t2 - token.payload.timestamp > MaxAgeMs
    \/ (t1 \div MsPerSecond) >= token.exp

\* C11: a validly signed token whose timestamp is more than an hour old, or
\* whose JWT expiry has passed, is rejected with 'QR code expired' by every
\* call, and that call leaves usedNonces as it was.
C11_ExpiredIsExpired ==
    \A token \in qrTokens, t1 \in Instants :
        \A t2 \in Later(t1) :
            (qrClock <= t1 /\ Expired(token, t1, t2)) =>
                LET r == verifyQRToken(token, usedNonces, t1, t2)
                IN  /\ ~r.valid
                    /\ r.error = "QR code expired"
                    /\ r.usedNonces = usedNonces

\* C12: no token is accepted by verifyQRToken more than once.
C12_AcceptedAtMostOnce ==
    \A token \in DOMAIN qrAccepted : qrAccepted[token] <= 1

(***************************************************************************)
(* Errors of sui_hackathon::mission::complete_mission_and_reward.          *)
(***************************************************************************)
\* The error the call is to end with: the first failing check of event
\* active, mission exists, mission active, not yet attested, funds available,
\* each with an error of its own.
FirstCause(event, passport, event_id, mission_id) ==
    IF ~is_active(event) THEN {event_EEventInactive}
    ELSE IF ~mission_exists(event, mission_id) THEN {mission_EMissionNotFound}
    ELSE IF ~event.missions[MissionKey(mission_id)].active
    THEN {mission_EMissionInactive}
    ELSE IF has_attestation(passport, event_id, mission_id)
    THEN {mission_EAlreadyCompleted}
    ELSE IF get_grant_pool_balance(event) <
                event.missions[MissionKey(mission_id)].reward_amount
    THEN {mission_EInsufficientFunds, event_EInsufficientFunds}
    ELSE {Ok}

\* C13: complete_mission_and_reward checks event active, mission exists,
\* mission active, no attestation yet, funds available, in this order, and
\* fails with the error of the first check that fails: EventInactive,
\* MissionNotFound, MissionInactive, AlreadyCompleted, InsufficientFunds.
C13_FirstCauseError ==
    \A e \in EventIds, p \in PassportIds, mission_id \in 0..MaxMissions :
        LET sender == passports[p].owner
            r == complete_mission_and_reward(
                     events[e], passports[p], e, mission_id,
                     QrProof(QrSecret, sender, mission_id), clock, sender)
        IN  r.abort \in FirstCause(events[e], passports[p], e, mission_id)

(***************************************************************************)
(* Deactivated events of leman_flow.                                       *)
(***************************************************************************)
\* C14: for a leman_flow event whose is_active is false, no claim_reward and
\* no complete_mission naming the event succeeds or takes funds out of the
\* pool, whatever the state of the mission.
C14_ClosedEventPaysNothing ==
    \A g \in LPoolIds, p \in LPassportIds, e \in LEventIds, m \in LMissionIds :
        \A signature \in Signatures(lPassports[p].owner, m) :
            LET sender == lPassports[p].owner
                claim == lf_claim_reward(lPools[g], lPassports[p], lEvents[e], m,
                                         signature, sender)
                complete == lf_complete_mission(lPools[g], lPassports[p], lEvents[e],
                                                e, m, signature, sender, clock)
            IN  ~lEvents[e].is_active =>
                    /\ ~Committed(claim) /\ claim.pool = lPools[g]
                    /\ ~Committed(complete) /\ complete.pool = lPools[g]

(***************************************************************************)
(* The three packages that hold funds, side by side.                       *)
(***************************************************************************)
InGrantPool == package = "sui_hackathon::grant_pool"

InitFunds == Empty /\ (InHackathon \/ InLemanFlow \/ InGrantPool)

NextFunds == Next \/ NextLeman \/ (InGrantPool /\ NextPool)

SpecFunds == InitFunds /\ [][NextFunds]_vars

\* The amounts a caller may ask for: up to more than any pool can hold.
Requests == 0..(MaxFunded + 1)

\* The outcomes of the operations that take value out of a pool, for every
\* pool of the current state and every argument: the balance before, the
\* amount asked for, the abort code and the balance after.
Outcome(balance, amount, abort, after) ==
    [balance |-> balance, amount |-> amount, abort |-> abort, after |-> after]

WithdrawalOutcomes ==
    {LET r == withdraw_reward(events[e], amount)
     IN  Outcome(events[e].grant_pool, amount, r.abort, r.event.grant_pool) :
         e \in EventIds, amount \in Requests}
    \cup
    {LET r == distribute_grant(pools[i], poolCaps[c], recipient, amount)
     IN  Outcome(pools[i].balance, amount, r.abort, r.pool.balance) :
         i \in PoolIds, c \in PoolCapIds, recipient \in Addr, amount \in Requests}
    \cup
    {LET r == distribute_batch(pools[i], poolCaps[c], recipients, amount)
     IN  Outcome(pools[i].balance, amount * Len(recipients), r.abort,
                 r.pool.balance) :
         i \in PoolIds, c \in PoolCapIds, recipients \in Batches, amount \in Requests}
    \cup
    {LET r == withdraw_remaining(pools[i], poolCaps[c], amount)
     IN  Outcome(pools[i].balance, amount, r.abort, r.pool.balance) :
         i \in PoolIds, c \in PoolCapIds, amount \in Requests}
    \cup
    {LET r == lf_withdraw_funds(lPools[g], amount, sender)
     IN  Outcome(lPools[g].balance, amount, r.abort, r.pool.balance) :
         g \in LPoolIds, amount \in Requests, sender \in Addr}
    \cup
    UNION {
        {LET r == lf_claim_reward(lPools[g], lPassports[p], lEvents[em[1]], em[2],
                                  signature, lPassports[p].owner)
         IN  Outcome(lPools[g].balance,
                     lEvents[em[1]].missions[em[2]].reward_amount,
                     r.abort, r.pool.balance) :
             signature \in Signatures(lPassports[p].owner, em[2])} :
        g \in LPoolIds, p \in LPassportIds,
        em \in {x \in LEventIds \X LMissionIds : lf_mission_exists(lEvents[x[1]], x[2])}}

Balances ==
    {events[e].grant_pool : e \in EventIds}
    \cup {pools[i].balance : i \in PoolIds}
    \cup {lPools[g].balance : g \in LPoolIds}

\* C15 (as claimed): no pool balance is negative; an operation that takes
\* value out of a pool is rejected, the balance unchanged, when the amount
\* asked for exceeds the balance, and otherwise it reduces the balance by
\* exactly that amount.
C15_DebitIffCovered ==
    /\ \A balance \in Balances : balance >= 0
    /\ \A o \in WithdrawalOutcomes :
        IF o.amount > o.balance
        THEN o.abort # Ok /\ o.after = o.balance
        ELSE o.abort = Ok /\ o.after = o.balance - o.amount

\* C15 (amended): no pool balance is negative; an operation that takes value
\* out of a pool is rejected when the amount asked for exceeds the balance,
\* every rejected call leaves the balance unchanged, and every call that
\* succeeds reduces the balance by exactly the amount asked for.
C15_DebitOnlyIfCovered ==
    /\ \A balance \in Balances : balance >= 0
    /\ \A o \in WithdrawalOutcomes :
        /\ o.amount > o.balance => o.abort # Ok
        /\ o.abort # Ok => o.after = o.balance
        /\ o.abort = Ok => o.after = o.balance - o.amount /\ o.after >= 0

\* C15 witness: a grant pool that distribute_grant or distribute_batch and
\* withdraw_remaining have emptied, so that any further amount exceeds it.
C15_Witness ==
    \E i \in PoolIds, c \in PoolCapIds :
        /\ pools[i].total_distributed > 0
        /\ poolLedger[i].withdrawn > 0
        /\ pools[i].balance = 0
        /\ withdraw_remaining(pools[i], poolCaps[c], 1).abort
              = grant_pool_EInsufficientFunds

(***************************************************************************)
(* Passports.                                                              *)
(***************************************************************************)
\* C16: no address owns more than one Passport, in either package: a second
\* registration by the owner of a Passport is rejected.
C16_OnePassportPerOwner ==
    /\ \A p \in PassportIds, q \in PassportIds :
           passports[p].owner = passports[q].owner => p = q
    /\ \A p \in LPassportIds, q \in LPassportIds :
           lPassports[p].owner = lPassports[q].owner => p = q

C18_PaidToOwner ==
    /\ [][/\ \A key \in DOMAIN paid' :
                Count(paid', key) > Count(paid, key) =>
                    LET owner == passports[key[1]].owner
                        mission == events[key[2]].missions[MissionKey(key[3])]
                    IN  received' = df_put(received, owner,
                                           Count(received, owner)
                                               + mission.reward_amount)
          /\ received' # received => paid' # paid
         ]_vars
    /\ [](\A g \in LPoolIds, p \in LPassportIds, e \in LEventIds, m \in LMissionIds :
            \A signature \in Signatures(lPassports[p].owner, m) :
                LET r == lf_complete_mission(lPools[g], lPassports[p], lEvents[e],
                                             e, m, signature,
                                             lPassports[p].owner, clock)
                IN  Committed(r) =>
                        /\ r.to = lPassports[p].owner
                        /\ r.coin = lEvents[e].missions[m].reward_amount)

\* C18 witness: a passport whose owner is not the organizer has claimed a
\* mission with a positive reward; its owner has received the reward and the
\* organizer has received nothing.
C18_Witness ==
    \E p \in PassportIds, e \in EventIds, m \in MissionIds :
        /\ passports[p].owner # events[e].organizer
        /\ Count(paid, <<p, e, m>>) = 1
        /\ events[e].missions[MissionKey(m)].reward_amount = MaxReward
        /\ Count(received, passports[p].owner) = MaxReward
        /\ Count(received, events[e].organizer) = 0

(***************************************************************************)
(* Mission identifiers.                                                    *)
(***************************************************************************)
\* What of a stored mission never changes: everything but its status and
\* its completion counter.
Identity(mission) ==
    [mission_id |-> mission.mission_id, title |-> mission.title,
     description |-> mission.description, reward_amount |-> mission.reward_amount]

\* C19: mission ids are sequential and never reused.  In sui_hackathon the
\* missions of an event are exactly those with ids 0..total_missions-1, each
\* stored under its own id; in leman_flow adding a mission under an id the
\* event already has is rejected and changes nothing; and in both packages no
\* step removes a stored mission or replaces it by another.
C19_SequentialIds ==
    /\ [](\A e \in EventIds :
            /\ DOMAIN events[e].missions
                  = {MissionKey(i) : i \in 0..(events[e].total_missions - 1)}
            /\ \A i \in 0..(events[e].total_missions - 1) :
                  events[e].missions[MissionKey(i)].mission_id = i)
    /\ [](\A e \in LEventIds :
            \A m \in DOMAIN lEvents[e].missions :
                /\ lEvents[e].missions[m].mission_id = m
                /\ \A sender \in Addr, title \in Titles,
                      description \in Descriptions, reward_amount \in Rewards :
                      LET r == lf_add_mission(lEvents[e], m, title, description,
                                              reward_amount,
                                              Sign(AdminSecretKey, bcs_ID(m)), sender)
                      IN  ~Committed(r) /\ r.event = lEvents[e])
    /\ [][/\ \A e \in EventIds :
                \A k \in DOMAIN events[e].missions :
                    /\ k \in DOMAIN events'[e].missions
                    /\ Identity(events'[e].missions[k])
                          = Identity(events[e].missions[k])
          /\ \A e \in LEventIds :
                \A k \in DOMAIN lEvents[e].missions :
                    /\ k \in DOMAIN lEvents'[e].missions
                    /\ Identity(lEvents'[e].missions[k])
                          = Identity(lEvents[e].missions[k])
         ]_vars

\* C19 witness: an event on which create_mission has run twice, holding
\* missions 0 and 1 with different contents.
C19_Witness ==
    \E e \in EventIds :
        /\ events[e].total_missions = 2
        /\ DOMAIN events[e].missions = {MissionKey(0), MissionKey(1)}
        /\ Identity(events[e].missions[MissionKey(0)]).reward_amount
              # Identity(events[e].missions[MissionKey(1)]).reward_amount

\* C20: every stored mission has a positive reward, in both packages: a
\* mission with reward_amount 0 is never added.
C20_PositiveRewards ==
    /\ \A e \in EventIds :
           \A k \in DOMAIN events[e].missions :
               events[e].missions[k].reward_amount > 0
    /\ \A e \in LEventIds :
           \A k \in DOMAIN lEvents[e].missions :
               lEvents[e].missions[k].reward_amount > 0

(***************************************************************************)
(* Creation of missions and events.                                        *)
(***************************************************************************)
\* C21: adding a mission to an event that is not active fails with the
\* event-inactive error and leaves the event, its missions and its mission
\* counter as they were, in both packages.
C21_ClosedEventTakesNoMission ==
    /\ \A e \in EventIds, c \in CapIds, title \in Titles,
          description \in Descriptions, reward_amount \in Rewards :
          LET r == create_mission(caps[c], events[e], title, description,
                                  reward_amount, Hash(QrSecret))
          IN  ~is_active(events[e]) =>
                  /\ r.abort = event_EEventInactive
                  /\ r.event = events[e]
    /\ \A e \in LEventIds, sender \in Addr, mission_id \in LMissionIds,
          title \in Titles, description \in Descriptions, reward_amount \in Rewards :
          LET r == lf_add_mission(lEvents[e], mission_id, title, description,
                                  reward_amount,
                                  Sign(AdminSecretKey, bcs_ID(mission_id)), sender)
          IN  ~lEvents[e].is_active =>
                  /\ r.abort = lf_event_EEventNotActive
                  /\ r.event = lEvents[e]

\* C22: create_event fails with the invalid-range error and creates no
\* Event when start >= end, and every Event that exists has start < end, in
\* both packages.
C22_EventsHaveARange ==
    /\ \A e \in EventIds : events[e].start_time < events[e].end_time
    /\ \A e \in LEventIds : lEvents[e].start_date < lEvents[e].end_date
    /\ \A sender \in Addr, name \in Names, description \in Descriptions,
          start \in Timestamps, end \in Timestamps :
          start >= end =>
              /\ ~Committed(create_event(name, description, start, end,
                                         Len(events) + 1, sender))
              /\ LET r == lf_create_event(name, description, start, end, sender)
                 IN  r.abort = lf_event_EInvalidDateRange /\ r.created = <<>>

(***************************************************************************)
(* Funding.                                                                *)
(***************************************************************************)
\* The events a funding function emits when it succeeds: fund_event emits
\* EventFunded {event_id, amount}, fund_pool emits PoolFunded {pool_id,
\* amount, new_balance}, leman_flow add_funds emits nothing.
FundingEmits(function, id, amount, new_balance) ==
    CASE function = "fund_event" ->
             <<[type |-> "EventFunded", event_id |-> id, amount |-> amount]>>
      [] function = "fund_pool" ->
             <<[type |-> "PoolFunded", pool_id |-> id, amount |-> amount,
                new_balance |-> new_balance]>>
      [] function = "add_funds" -> <<>>

\* A funded notification that carries the new balance was emitted.
CarriesBalance(emitted, new_balance) ==
    \E n \in 1..Len(emitted) :
        /\ "new_balance" \in DOMAIN emitted[n]
        /\ emitted[n].new_balance = new_balance

\* C23: fund_event, fund_pool and add_funds succeed on an active and on an
\* inactive target alike, increase the balance by exactly the payment, change
\* no other field, and emit a funded notification that carries the new
\* balance.
C23_FundingExact ==
    /\ \A e \in EventIds, payment \in Coins :
          LET after == fund_event(events[e], payment)
          IN  /\ after = [events[e] EXCEPT !.grant_pool = @ + payment]
              /\ CarriesBalance(FundingEmits("fund_event", e, payment,
                                             after.grant_pool),
                                after.grant_pool)
    /\ \A i \in PoolIds, funding \in Coins :
          LET r == fund_pool(pools[i], funding)
          IN  /\ Committed(r)
              /\ r.pool = [pools[i] EXCEPT !.balance = @ + funding]
              /\ CarriesBalance(FundingEmits("fund_pool", i, funding,
                                             r.pool.balance),
                                r.pool.balance)
    /\ \A g \in LPoolIds, coins \in Coins :
          LET after == lf_add_funds(lPools[g], coins)
          IN  /\ after = [lPools[g] EXCEPT !.balance = @ + coins]
              /\ CarriesBalance(FundingEmits("add_funds", g, coins, after.balance),
                                after.balance)

(***************************************************************************)
(* Batches and counters of sui_hackathon::grant_pool.                      *)
(***************************************************************************)
\* C24: distribute_batch is all-or-nothing against the total.  It succeeds
\* exactly when the pool is active, the balance covers amount_per_recipient
\* times the number of recipients and the amount is positive (or the list is
\* empty); then every entry of the list is paid the amount, the balance
\* decreases and total_distributed increases by the product, and
\* recipients_count increases by the length of the list.  Otherwise nobody
\* is paid and the pool is unchanged; an active pool whose balance is below
\* the product fails with EInsufficientFunds.
C24_BatchAllOrNothing ==
    \A i \in PoolIds, c \in PoolCapIds, recipients \in Batches,
       amount_per_recipient \in Amounts :
        LET pool == pools[i]
            r == distribute_batch(pool, poolCaps[c], recipients, amount_per_recipient)
            product == amount_per_recipient * Len(recipients)
        IN  /\ Committed(r) <=>
                  /\ pool.active
                  /\ pool.balance >= product
                  /\ recipients = <<>> \/ amount_per_recipient > 0
            /\ Committed(r) =>
                  /\ r.pool = [pool EXCEPT
                                 !.balance = @ - product,
                                 !.total_distributed = @ + product,
                                 !.recipients_count = @ + Len(recipients)]
                  /\ r.grants = [k \in 1..Len(recipients) |->
                                    <<recipients[k], amount_per_recipient>>]
            /\ ~Committed(r) => r.pool = pool /\ r.grants = <<>>
            /\ (pool.active /\ pool.balance < product)
                  => r.abort = grant_pool_EInsufficientFunds

\* C24 witness: a pool that has paid a grant and whose balance covers one
\* more grant of MaxCoin but not a batch of two: the batch naming the same
\* recipient twice is refused on its total.
C24_Witness ==
    \E i \in PoolIds, c \in PoolCapIds :
        /\ pools[i].recipients_count >= 1
        /\ pools[i].active
        /\ Committed(distribute_grant(pools[i], poolCaps[c], "bob", MaxCoin))
        /\ distribute_batch(pools[i], poolCaps[c], <<"bob", "bob">>, MaxCoin).abort
              = grant_pool_EInsufficientFunds

\* The two counters of a GrantPool.
Counters(pool) ==
    [total_distributed |-> pool.total_distributed,
     recipients_count |-> pool.recipients_count]

\* C25: total_distributed and recipients_count of a GrantPool never
\* decrease and change only with a successful distribute_grant.  No step
\* lowers a counter, and a step that changes one has transferred grants of
\* the same total; every successful distribute_grant adds its amount to
\* total_distributed and 1 to recipients_count; fund_pool, deactivate_pool,
\* reactivate_pool and withdraw_remaining leave both as they are.
C25_CountersOnlyGrow ==
    /\ [][\A i \in PoolIds :
            /\ pools'[i].total_distributed >= pools[i].total_distributed
            /\ pools'[i].recipients_count >= pools[i].recipients_count
            /\ pools'[i].total_distributed - pools[i].total_distributed
                  = poolLedger'[i].granted - poolLedger[i].granted
            /\ Counters(pools'[i]) # Counters(pools[i])
                  => pools'[i].recipients_count > pools[i].recipients_count
         ]_vars
    /\ [](\A i \in PoolIds, c \in PoolCapIds, amount \in Amounts :
            /\ \A recipient \in Addr :
                  LET r == distribute_grant(pools[i], poolCaps[c], recipient, amount)
                  IN  IF Committed(r)
                      THEN Counters(r.pool) =
                               [total_distributed |->
                                    pools[i].total_distributed + amount,
                                recipients_count |-> pools[i].recipients_count + 1]
                      ELSE Counters(r.pool) = Counters(pools[i])
            /\ Counters(fund_pool(pools[i], amount).pool) = Counters(pools[i])
            /\ Counters(deactivate_pool(pools[i], poolCaps[c]).pool)
                  = Counters(pools[i])
            /\ Counters(reactivate_pool(pools[i], poolCaps[c]).pool)
                  = Counters(pools[i])
            /\ Counters(withdraw_remaining(pools[i], poolCaps[c], amount).pool)
                  = Counters(pools[i]))

\* C25 witness: a deactivated pool that has paid a grant and from which
\* withdraw_remaining has taken funds: its counters record the grant alone.
C25_Witness ==
    \E i \in PoolIds :
        /\ ~pools[i].active
        /\ poolLedger[i].withdrawn > 0
        /\ poolLedger[i].funded > 0
        /\ pools[i].recipients_count = 1
        /\ pools[i].total_distributed = poolLedger[i].granted
        /\ pools[i].total_distributed > 0

(***************************************************************************)
(* Who may withdraw from a leman_flow GrantPool.                           *)
(***************************************************************************)
\* C26: grant_pool::withdraw_funds called by an address that is not the
\* administrator is rejected and leaves the pool as it was.
C26_OnlyAdminWithdraws ==
    \A g \in LPoolIds, sender \in Addr \ Organizers, amount \in Requests :
        LET r == lf_withdraw_funds(lPools[g], amount, sender)
        IN  ~Committed(r) /\ r.pool = lPools[g] /\ r.coin = 0

(***************************************************************************)
(* Transactions on sui_hackathon::counter and sui_hackathon::example.  A   *)
(* Counter and the App are shared: any address may pass them.              *)
(***************************************************************************)
CounterIds == 1..Len(counters)

CounterLog(creator) == [creator |-> creator, increments |-> 0, sets |-> 0]

Call_counter_create(sender) ==
    /\ Len(counters) < MaxCounters
    /\ LET r == counter_create(sender)
       IN  /\ counters' = Append(counters, r.counter)
           /\ counterLog' = Append(counterLog, CounterLog(sender))
    /\ UNCHANGED <<app, appLog, notCounter>>

Call_counter_increment(i, sender) ==
    /\ counterLog[i].increments < MaxIncrements
    /\ LET r == counter_increment(counters[i])
       IN  /\ counters' = IF Committed(r) THEN [counters EXCEPT ![i] = r.counter]
                          ELSE counters
           /\ counterLog' = IF Committed(r)
                            THEN [counterLog EXCEPT ![i].increments = @ + 1]
                            ELSE counterLog
    /\ UNCHANGED <<app, appLog, notCounter>>

Call_counter_set_value(i, value, sender) ==
    /\ counterLog[i].sets < 1
    /\ LET r == counter_set_value(counters[i], value, sender)
       IN  /\ counters' = IF Committed(r) THEN [counters EXCEPT ![i] = r.counter]
                          ELSE counters
           /\ counterLog' = IF Committed(r)
                            THEN [counterLog EXCEPT ![i].sets = @ + 1]
                            ELSE counterLog
    /\ UNCHANGED <<app, appLog, notCounter>>

\* The sender holds the OwnerCap of a counter it created.
Call_counter_freeze_counter(i, sender) ==
    /\ \E j \in CounterIds : counterLog[j].creator = sender
    /\ LET r == counter_freeze_counter(sender, counters[i])
       IN  counters' = IF Committed(r) THEN [counters EXCEPT ![i] = r.counter]
                       ELSE counters
    /\ UNCHANGED <<counterLog, app, appLog, notCounter>>

Call_example_increment(sender) ==
    /\ appLog < MaxIncrements
    /\ LET r == example_increment(app)
       IN  /\ app' = IF Committed(r) THEN r.app ELSE app
           /\ appLog' = IF Committed(r) THEN appLog + 1 ELSE appLog
    /\ UNCHANGED <<counters, counterLog, notCounter>>

Call_example_update_name(new_name) ==
    /\ LET r == example_update_name("AdminCap", app, new_name)
       IN  app' = IF Committed(r) THEN r.app ELSE app
    /\ UNCHANGED <<counters, counterLog, appLog, notCounter>>

InCounter == package = "sui_hackathon::counter"

InitCounter == Empty /\ InCounter

NextCounter ==
    \/ \E sender \in Addr : Call_counter_create(sender)
    \/ \E i \in CounterIds, sender \in Addr : Call_counter_increment(i, sender)
    \/ \E i \in CounterIds, value \in U64, sender \in Addr :
          Call_counter_set_value(i, value, sender)
    \/ \E i \in CounterIds, sender \in Addr : Call_counter_freeze_counter(i, sender)
    \/ \E sender \in Addr : Call_example_increment(sender)
    \/ \E new_name \in {"SUI Hackathon dApp", "Updated dApp"} :
          Call_example_update_name(new_name)

SpecCounter == InitCounter /\ [][NextCounter]_vars

\* C27: counter::set_value succeeds only when the sender is the counter's
\* owner, the address that created it, and then value becomes the given
\* value; called by any other address it aborts with code 0 and leaves the
\* counter, its value and its owner, unchanged.
C27_OwnerSetsValue ==
    \A i \in CounterIds, value \in U64, sender \in Addr :
        LET r == counter_set_value(counters[i], value, sender)
        IN  /\ counters[i].owner = counterLog[i].creator
            /\ sender = counterLog[i].creator =>
                  /\ Committed(r)
                  /\ r.counter = [counters[i] EXCEPT !.value = value]
            /\ sender # counterLog[i].creator =>
                  /\ r.abort = counter_ENotOwner
                  /\ r.counter = counters[i]

\* C27 witness: a counter whose owner has set its value once, to a value it
\* had not reached by increments, and that another address cannot set.
C27_Witness ==
    \E i \in CounterIds, sender \in Addr :
        /\ counterLog[i].sets = 1
        /\ counters[i].value > counterLog[i].increments
        /\ sender # counters[i].owner
        /\ counter_set_value(counters[i], 0, sender).abort = counter_ENotOwner

\* C28 (as claimed): a counter starts with value 0 and its creator as
\* owner, every increment by any address raises value by exactly 1 and leaves
\* owner unchanged, so a counter never set holds the number of its
\* increments; the same for example::increment on the App counter.
C28_EveryIncrementCounts ==
    /\ \A sender \in Addr : counter_create(sender).counter = [owner |-> sender, value |-> 0]
    /\ \A i \in CounterIds :
          LET r == counter_increment(counters[i])
          IN  /\ Committed(r)
              /\ r.counter = [counters[i] EXCEPT !.value = @ + 1]
              /\ counterLog[i].sets = 0 => counters[i].value = counterLog[i].increments
    /\ LET r == example_increment(app)
       IN  /\ Committed(r)
           /\ r.app = [app EXCEPT !.counter = @ + 1]
           /\ app.counter = appLog

\* C28 (amended): a counter starts with value 0 and its creator as owner;
\* an increment by any address raises value by exactly 1 and leaves owner
\* unchanged unless value is the largest u64, when it aborts on the overflow
\* and changes nothing; a counter never set holds the number of its
\* successful increments; the same for example::increment on the App.
C28_IncrementCountsBelowMax ==
    /\ \A sender \in Addr : counter_create(sender).counter = [owner |-> sender, value |-> 0]
    /\ \A i \in CounterIds :
          LET r == counter_increment(counters[i])
          IN  /\ counters[i].owner = counterLog[i].creator
              /\ IF counters[i].value < MaxU64
                 THEN /\ Committed(r)
                      /\ r.counter = [counters[i] EXCEPT !.value = @ + 1]
                 ELSE r.abort = move_EArithmetic /\ r.counter = counters[i]
              /\ counterLog[i].sets = 0 => counters[i].value = counterLog[i].increments
    /\ LET r == example_increment(app)
       IN  /\ IF app.counter < MaxU64
              THEN Committed(r) /\ r.app = [app EXCEPT !.counter = @ + 1]
              ELSE r.abort = move_EArithmetic /\ r.app = app
           /\ app.counter = appLog

\* C28 witness: a counter that was never set and has been incremented twice,
\* beside a counter its owner has set to the largest u64, and the App
\* counter incremented twice.
C28_Witness ==
    \E i \in CounterIds, j \in CounterIds :
        /\ counterLog[i].sets = 0
        /\ counterLog[i].increments = 2
        /\ counters[i].value = 2
        /\ counterLog[j].sets = 1
        /\ counters[j].value = MaxU64
        /\ app.counter = 2

(***************************************************************************)
(* The backend's salt service (index.js).  A sub is the subject of the     *)
(* user's JWT, a string; the handlers run to completion one at a time.     *)
(* firstSalt records, per sub, the salt of the first successful login.     *)
(***************************************************************************)
Subs == {"sub-1", "sub-2", "sub-3"}
Jwts == {"", "jwt"}
LoginTimes == 0..MaxLoginTime

Call_post_login(jwt, sub, now) ==
    LET r == post_login(userSalts, jwt, sub, now)
    IN  /\ userSalts' = r.userSalts
        /\ firstSalt' = IF r.code = 200 /\ sub \notin DOMAIN firstSalt
                        THEN df_put(firstSalt, sub, r.body.salt)
                        ELSE firstSalt
        /\ loginClock' = now
        /\ UNCHANGED <<sponsored, notLogin>>

Call_get_salt(sub, now) ==
    LET r == get_salt(userSalts, sub)
    IN  /\ userSalts' = r.userSalts
        /\ loginClock' = now
        /\ UNCHANGED <<firstSalt, sponsored, notLogin>>

InSaltService == package = "backend"

InitLogin == Empty /\ InSaltService

\* POST /api/claim.  A request body holds qrPayload {missionId, signature},
\* signedTransaction and userAddress; Null stands for a field the body lacks.
\* The QR signature of a mission is the sponsor key's signature of
\* missionId and the secret salt, as POST /api/admin/events/:id/missions
\* makes it.
Null == [null |-> TRUE]
SponsorSecretKey == "sponsor-sk"
QrSecretSalt == "default_secret_salt"
QrMessage(missionId) == <<missionId, QrSecretSalt>>
CompleteMissionCall(sender, missionId) == [kind |-> "MoveCall", target |-> "leman_flow::complete_mission", sender |-> sender, mission_id |-> missionId]
TransferSui(sender, recipient) == [kind |-> "TransferObjects", target |-> "transfer_sui", sender |-> sender, recipient |-> recipient]

\* The handler: the reply, and the transaction it signed with the sponsor
\* key and submitted, if any.
post_claim(qrPayload, signedTransaction, userAddress) ==
    IF qrPayload = Null \/ signedTransaction = Null \/ userAddress = ""
    THEN [code |-> 400, body |-> [error |-> "Missing required fields"], executed |-> {}]
    ELSE [code |-> 200, body |-> [success |-> TRUE],
          executed |-> {[qrPayload |-> qrPayload, transaction |-> signedTransaction]}]

ClaimMissions == {"m1"}
QrPayloads ==
    {Null} \cup {[missionId |-> m, signature |-> Sign(key, QrMessage(m))] :
                   m \in ClaimMissions, key \in {SponsorSecretKey, OtherSecretKey}}
ClaimTransactions ==
    {Null} \cup {CompleteMissionCall(a, m) : a \in Addr, m \in ClaimMissions}
           \cup {TransferSui(a, a) : a \in Addr}

Call_post_claim(qrPayload, signedTransaction, userAddress) ==
    LET r == post_claim(qrPayload, signedTransaction, userAddress)
    IN  /\ sponsored' = sponsored \cup r.executed
        /\ UNCHANGED <<userSalts, firstSalt, loginClock, notLogin>>

NextLogin ==
    \/ \E jwt \in Jwts, sub \in Subs \cup {""}, now \in LoginTimes : Call_post_login(jwt, sub, now)
    \/ \E sub \in Subs, now \in LoginTimes : Call_get_salt(sub, now)
    \/ \E qrPayload \in QrPayloads, signedTransaction \in ClaimTransactions, userAddress \in Addr \cup {""} :
          Call_post_claim(qrPayload, signedTransaction, userAddress)

SpecLogin == InitLogin /\ [][NextLogin]_vars

Except(record, field) == [f \in DOMAIN record \ {field} |-> record[f]]

\* C30: set_mission_status changes only the active flag of the mission it
\* names.  When it succeeds the mission's other fields, every other mission,
\* the set of missions and every other field of the event (active flag,
\* mission counter, pool balance) are as before and the flag is the one
\* given; on a mission_id the event does not hold it fails and the event is
\* unchanged.  The same for leman_flow's deactivate_mission, whose flag
\* becomes false.
C30_OnlyTheFlag ==
    /\ \A e \in EventIds, c \in CapIds, mission_id \in 0..MaxMissions, active \in BOOLEAN :
          LET r == set_mission_status(caps[c], events[e], mission_id, active)
              key == MissionKey(mission_id)
          IN  IF df_exists_(events[e].missions, key)
              THEN /\ Committed(r)
                   /\ Except(r.event, "missions") = Except(events[e], "missions")
                   /\ DOMAIN r.event.missions = DOMAIN events[e].missions
                   /\ \A k \in DOMAIN events[e].missions \ {key} :
                          r.event.missions[k] = events[e].missions[k]
                   /\ Except(r.event.missions[key], "active")
                         = Except(events[e].missions[key], "active")
                   /\ r.event.missions[key].active = active
              ELSE ~Committed(r) /\ r.event = events[e]
    /\ \A e \in LEventIds, mission_id \in LMissionIds, sender \in Addr :
          LET r == lf_deactivate_mission(lEvents[e], mission_id, sender)
          IN  IF Committed(r)
              THEN /\ df_exists_(lEvents[e].missions, mission_id)
                   /\ Except(r.event, "missions") = Except(lEvents[e], "missions")
                   /\ DOMAIN r.event.missions = DOMAIN lEvents[e].missions
                   /\ \A k \in DOMAIN lEvents[e].missions \ {mission_id} :
                          r.event.missions[k] = lEvents[e].missions[k]
                   /\ Except(r.event.missions[mission_id], "is_active")
                         = Except(lEvents[e].missions[mission_id], "is_active")
                   /\ r.event.missions[mission_id].is_active = FALSE
              ELSE r.event = lEvents[e]
          /\ ~df_exists_(lEvents[e].missions, mission_id) => ~Committed(r)

\* C30 witness: an event with two missions where the first, already
\* completed once, has been switched off and the second is still on, the
\* event itself being active.
C30_Witness ==
    \E e \in EventIds :
        /\ events[e].active
        /\ DOMAIN events[e].missions = {MissionKey(0), MissionKey(1)}
        /\ events[e].missions[MissionKey(0)].completions >= 1
        /\ ~events[e].missions[MissionKey(0)].active
        /\ events[e].missions[MissionKey(1)].active
        /\ \E c \in CapIds :
              Committed(set_mission_status(caps[c], events[e], 0, TRUE))

\* The outcomes of the three admin operations of leman_flow::event on event
\* e for a sender, over every mission id and reward.
AdminOutcomes(e, sender) ==
    {lf_add_mission(lEvents[e], mission_id, title, description, reward_amount, Hash(QrSecret), sender) :
        mission_id \in LMissionIds, title \in Titles, description \in Descriptions, reward_amount \in Rewards}
    \cup {lf_deactivate_mission(lEvents[e], mission_id, sender) : mission_id \in LMissionIds}
    \cup {lf_deactivate_event(lEvents[e], sender)}

\* C31 (as claimed): add_mission, deactivate_mission and deactivate_event
\* succeed only for the event's admin, the address that created it; for any
\* other sender each of them aborts with EUnauthorized and leaves the event
\* and its missions unchanged.
C31_OthersUnauthorized ==
    \A e \in LEventIds :
        \A sender \in Addr \ {lEvents[e].admin} :
            \A r \in AdminOutcomes(e, sender) :
                r.abort = lf_event_EUnauthorized /\ r.event = lEvents[e]

\* C31 (amended): the admin of an event is its creator and never changes;
\* for any other sender add_mission, deactivate_mission and deactivate_event
\* abort and leave the event and its missions unchanged.  The abort is
\* EUnauthorized, except that add_mission on an event that is no longer
\* active aborts with EEventNotActive, the check it makes first.
C31_OnlyAdminActs ==
    /\ [][\A e \in LEventIds : lEvents'[e].admin = lEvents[e].admin]_vars
    /\ [](/\ \A sender \in Addr, name \in Names, description \in Descriptions :
                LET r == lf_create_event(name, description, 0, MaxTime, sender)
                IN  Committed(r) /\ r.created[1].admin = sender
          /\ \A e \in LEventIds : \A sender \in Addr \ {lEvents[e].admin} :
                /\ \A r \in AdminOutcomes(e, sender) :
                      /\ ~Committed(r)
                      /\ r.event = lEvents[e]
                      /\ r.abort \in {lf_event_EUnauthorized, lf_event_EEventNotActive}
                      /\ r.abort = lf_event_EEventNotActive => ~lEvents[e].is_active
                      /\ lEvents[e].is_active => r.abort = lf_event_EUnauthorized
                /\ \A mission_id \in LMissionIds :
                      lf_deactivate_mission(lEvents[e], mission_id, sender).abort
                          = lf_event_EUnauthorized
                /\ lf_deactivate_event(lEvents[e], sender).abort = lf_event_EUnauthorized)

\* C31 witness: an event whose admin has added a mission and then
\* deactivated it, on which another address tries add_mission and is turned
\* away with EEventNotActive, and deactivate_mission with EUnauthorized.
C31_Witness ==
    \E e \in LEventIds, sender \in Addr :
        /\ sender # lEvents[e].admin
        /\ ~lEvents[e].is_active
        /\ "m1" \in DOMAIN lEvents[e].missions
        /\ lf_add_mission(lEvents[e], "m2", "Scan", "desc", MaxReward, Hash(QrSecret), sender).abort
              = lf_event_EEventNotActive
        /\ lf_deactivate_mission(lEvents[e], "m1", sender).abort = lf_event_EUnauthorized

\* The addresses that hold an OwnerCap: create hands one to each creator.
OwnerCapHolders == {counterLog[j].creator : j \in CounterIds}

C33_SponsorsOnlyVerifiedClaims ==
    \A s \in sponsored :
        /\ ed25519_verify(s.qrPayload.signature, PublicKey(SponsorSecretKey),
                          QrMessage(s.qrPayload.missionId))
        /\ s.transaction.target = "leman_flow::complete_mission"

(***************************************************************************)
(* The leman_flow claim path with a second Event.  create_event and        *)
(* share_event are public, so any address can publish an Event of its own  *)
(* beside the one the pool operator created, and claim_reward takes the    *)
(* Event as an argument of the caller's choosing.                          *)
(***************************************************************************)
Call_lf_create_rival_event(sender, name, description) ==
    /\ Len(lEvents) = MaxLEvents
    /\ LET r == lf_create_event(name, description, 0, MaxTime, sender)
       IN  lEvents' = IF Committed(r) THEN lEvents \o r.created ELSE lEvents
    /\ UNCHANGED <<lPassports, lPools, lLedger, lPaid, lClaimed, clock, notLeman>>

NextRival ==
    \/ \E sender \in Organizers, name \in Names, description \in Descriptions :
          Call_lf_create_event(sender, name, description, 0, MaxTime)
    \/ \E sender \in Addr \ Organizers, name \in Names, description \in Descriptions :
          Call_lf_create_rival_event(sender, name, description)
    \/ \E e \in LEventIds, sender \in Addr, title \in Titles, description \in Descriptions, reward_amount \in 1..MaxReward :
          Call_lf_add_mission(e, sender, "m1", title, description, reward_amount)
    \/ \E sender \in Addr \ Organizers, name \in Names :
          Call_lf_create_user_passport(sender, name)
    \/ Call_lf_create(PublicKey(AdminSecretKey), MaxReward)
    \/ \E g \in LPoolIds : Call_lf_add_funds(g, MaxReward)
    \/ \E g \in LPoolIds, p \in LPassportIds, e \in LEventIds :
          \E signature \in Signatures(lPassports[p].owner, "m1") :
              Call_lf_complete_mission(g, p, e, "m1", signature)

SpecRival == InitLeman /\ [][NextRival]_vars

\* C34: the amount claim_reward takes from the pool for mission id M is the
\* reward the pool operator's own event (the first Event, created by the
\* organizer) assigns to M, whichever Event object the caller passes.
C34_PaysTheOperatorsReward ==
    \A k \in DOMAIN lClaimed :
        lf_mission_exists(lEvents[1], k[2])
            => lClaimed[k] = lf_get_mission(lEvents[1], k[2]).reward_amount

\* C35: a passport's counter equals the number of keys in its ledger.  In
\* sui_hackathon attestation_count is the number of AttestationKey fields;
\* in leman_flow total_missions is the size of missions_completed, the keys
\* of missions_completed are the mission ids with an Attestation attached,
\* and is_mission_completed(m) is true exactly when get_attestation(m)
\* succeeds.
C35_CounterMatchesLedger ==
    /\ \A p \in PassportIds :
          passports[p].attestation_count = Cardinality(DOMAIN passports[p].attestations)
    /\ \A p \in LPassportIds :
          /\ lf_get_total_missions(lPassports[p])
                = Cardinality(DOMAIN lPassports[p].missions_completed)
          /\ DOMAIN lPassports[p].missions_completed = DOMAIN lPassports[p].attestations
          /\ \A mission_id \in LMissionIds :
                lf_is_mission_completed(lPassports[p], mission_id)
                    <=> Committed(lf_get_attestation(lPassports[p], mission_id))

\* C35 witness: a leman_flow passport with two completed missions, both with
\* their attestation, beside a passport with none.
C35_Witness ==
    \E p \in LPassportIds, q \in LPassportIds :
        /\ lf_get_total_missions(lPassports[p]) = 2
        /\ \A mission_id \in LMissionIds :
              /\ lf_is_mission_completed(lPassports[p], mission_id)
              /\ Committed(lf_get_attestation(lPassports[p], mission_id))
        /\ lf_get_total_missions(lPassports[q]) = 0
        /\ lPassports[q].attestations = NoFields

\* The passports that hold an attestation keyed (event_id, mission_id).
Holders(event_id, mission_id) ==
    {p \in PassportIds : has_attestation(passports[p], event_id, mission_id)}

\* C36: in sui_hackathon, for every mission M of every event E,
\* M.completions is the number of passports holding an attestation keyed
\* (E, M); completions never decreases and changes only in a successful
\* complete_mission_and_reward, by exactly 1.
C36_CompletionsCountHolders ==
    /\ [](\A e \in EventIds :
            \A k \in DOMAIN events[e].missions :
                events[e].missions[k].completions
                    = Cardinality(Holders(e, events[e].missions[k].mission_id)))
    /\ [][\A e \in EventIds :
            \A k \in DOMAIN events[e].missions :
                LET before == events[e].missions[k].completions
                    after == events'[e].missions[k].completions
                IN  /\ after >= before
                    /\ after # before =>
                          /\ after = before + 1
                          /\ \E p \in PassportIds :
                                /\ Count(paid', <<p, e, k>>) = Count(paid, <<p, e, k>>) + 1
                                /\ ~has_attestation(passports[p], e, k)
                                /\ has_attestation(passports'[p], e, k)
         ]_vars

\* C36 witness: a mission completed by two passports, its completions at 2.
C36_Witness ==
    \E e \in EventIds, p \in PassportIds, q \in PassportIds :
        /\ p # q
        /\ MissionKey(0) \in DOMAIN events[e].missions
        /\ events[e].missions[MissionKey(0)].completions = 2
        /\ Holders(e, 0) = {p, q}

\* The attestations recorded for event_id across all passports, each as
\* <<passport, key>>, and the sum of their reward_amount.
EventAttestations(event_id) ==
    {pk \in PassportIds \X (EventIds \X MissionIds) :
        /\ pk[2] \in DOMAIN passports[pk[1]].attestations
        /\ passports[pk[1]].attestations[pk[2]].event_id = event_id}

RECURSIVE SumAttested(_)
SumAttested(S) ==
    IF S = {} THEN 0
    ELSE LET pk == CHOOSE x \in S : TRUE
         IN  passports[pk[1]].attestations[pk[2]].reward_amount + SumAttested(S \ {pk})

\* The sum over the missions of an event of completions * reward_amount.
RECURSIVE SumCompleted(_, _)
SumCompleted(event, keys) ==
    IF keys = {} THEN 0
    ELSE LET k == CHOOSE x \in keys : TRUE
         IN  event.missions[k].completions * event.missions[k].reward_amount
                 + SumCompleted(event, keys \ {k})

\* C37: for every sui_hackathon Event the grant_pool balance equals the sum
\* of all fund_event amounts minus the sum of reward_amount over the
\* attestations recorded for that event across all passports, which is also
\* the sum over its missions of completions * reward_amount.
C37_BalanceIsFundedLessRewards ==
    \A e \in EventIds :
        /\ get_grant_pool_balance(events[e])
              = eventFunded[e] - SumAttested(EventAttestations(e))
        /\ SumAttested(EventAttestations(e))
              = SumCompleted(events[e], DOMAIN events[e].missions)

\* C37 witness: an event funded twice, 4 in all, whose mission of reward 2
\* two passports have completed, leaving the pool empty.
C37_Witness ==
    \E e \in EventIds :
        /\ eventFunded[e] = 2 * MaxReward
        /\ get_grant_pool_balance(events[e]) = 0
        /\ Cardinality(EventAttestations(e)) = 2
        /\ SumAttested(EventAttestations(e)) = 2 * MaxReward

\* What the notifications emitted for a pool add up to: create_pool emits
\* PoolCreated with initial_balance, every successful fund_pool a PoolFunded
\* with its amount, every successful distribute_grant (alone or inside
\* distribute_batch) a GrantDistributed with its amount.  deactivate_pool,
\* reactivate_pool and withdraw_remaining emit nothing.
PoolNotifications(ledger) ==
    [initial_balance |-> ledger.initial_funding,
     funded |-> ledger.funded,
     distributed |-> ledger.granted]

\* C38: the notifications of sui_hackathon::grant_pool reconstruct the pool
\* balance: at any time balance = PoolCreated.initial_balance + the sum of
\* PoolFunded.amount - the sum of GrantDistributed.amount emitted so far for
\* the pool, and each PoolFunded.new_balance is the balance right after
\* that funding.
C38_NotificationsGiveBalance ==
    \A i \in PoolIds :
        LET n == PoolNotifications(poolLedger[i])
        IN  /\ pools[i].balance = n.initial_balance + n.funded - n.distributed
            /\ \A funding \in Amounts :
                  LET r == fund_pool(pools[i], funding)
                  IN  Committed(r) =>
                          CarriesBalance(FundingEmits("fund_pool", i, funding, r.pool.balance),
                                         pools[i].balance + funding)

\* C39: in leman_flow::event the is_active flags are one-way.  An event or
\* a mission whose is_active is false keeps it false in every later state;
\* every add_mission on a deactivated event fails, so from then on its set
\* of missions stays as it is.
C39_DeactivationIsFinal ==
    /\ [][\A e \in LEventIds :
            /\ ~lEvents[e].is_active =>
                  /\ ~lEvents'[e].is_active
                  /\ DOMAIN lEvents'[e].missions = DOMAIN lEvents[e].missions
            /\ \A k \in DOMAIN lEvents[e].missions :
                  ~lEvents[e].missions[k].is_active =>
                      /\ k \in DOMAIN lEvents'[e].missions
                      /\ ~lEvents'[e].missions[k].is_active
         ]_vars
    /\ [](\A e \in LEventIds, sender \in Addr, mission_id \in LMissionIds, reward_amount \in Rewards :
            ~lEvents[e].is_active =>
                LET r == lf_add_mission(lEvents[e], mission_id, "Scan", "desc", reward_amount, Hash(QrSecret), sender)
                IN  ~Committed(r) /\ r.event = lEvents[e])

\* C39 witness: a deactivated event holding one mission, itself
\* deactivated, on which its admin's add_mission of a second mission fails.
C39_Witness ==
    \E e \in LEventIds :
        /\ ~lEvents[e].is_active
        /\ DOMAIN lEvents[e].missions = {"m1"}
        /\ ~lEvents[e].missions["m1"].is_active
        /\ lf_add_mission(lEvents[e], "m2", "Scan", "desc", MaxReward, Hash(QrSecret), lEvents[e].admin).abort
              = lf_event_EEventNotActive

\* The signature the backend gives sender for mission_id, which verifies
\* under the pool's admin public key.
ValidSignature(sender, mission_id) ==
    Sign(AdminSecretKey, lf_construct_message(sender, mission_id))

\* complete_mission by the owner of passport p on pool g, event e.
Completion(g, p, e, mission_id, signature) ==
    lf_complete_mission(lPools[g], lPassports[p], lEvents[e], e, mission_id, signature, lPassports[p].owner, clock)

====
